---- MODULE Spec2Model ----
(***************************************************************************)
(* The document outline navigation engine of glow's pager: the heading     *)
(* extractor (parseHeadings), the outline sidebar state (outlineModel),    *)
(* the two scroll conversions (jumpToHeading, updateCurrentHeading) and    *)
(* the pager's update loop that drives them (pagerModel.update); and the   *)
(* preprocessor that has the diagrams of a document rendered               *)
(* (Preprocessor.Process).                                                 *)
(*                                                                         *)
(* Strings are sequences of one-character strings, so that splitting,      *)
(* trimming, prefix tests and the heading pattern are computed on the      *)
(* characters as the Go code computes them.                                *)
(***************************************************************************)
EXTENDS Integers, Sequences, FiniteSets, TLC

VARIABLES
    m,          \* the pagerModel value held by the UI loop (outline nested)
    common,     \* the shared *commonModel: terminal width and height
    inflight,   \* render commands dispatched whose result has not arrived
    last,       \* the operation handled last, with its argument and result
    pp          \* the Preprocessor at work on a document, with its renderer

vars == <<m, common, inflight, last, pp>>

----------------------------------------------------------------------------
(* Bounds of the model *)

\* lines of a generated markdown document
MaxDocLines == 3
\* rendered lines the styled rendering produces per raw line
MaxStretch == 3
\* render results that may be in flight at once
MaxInFlight == 2
\* blocks and paragraphs of a document given to the preprocessor
MaxSegments == 3

----------------------------------------------------------------------------
(* Program constants *)

outlineMinWidth == 20
outlineMaxWidth == 40
outlineWidthPercent == 25
minTerminalWidth == 80
statusBarHeight == 1
scrollOff == 5

----------------------------------------------------------------------------
(* Strings *)

Max(a, b) == IF a > b THEN a ELSE b
Min(a, b) == IF a < b THEN a ELSE b

NL == "\n"
IsSpace == {" ", "\t", "\r", NL}
IsHash == {"#"}

\* number of leading / trailing characters of s that are in the class cs
LeadRun(s, cs) ==
    CHOOSE k \in 0..Len(s) :
        /\ \A i \in 1..k : s[i] \in cs
        /\ (k = Len(s) \/ s[k + 1] \notin cs)

TrailRun(s, cs) ==
    CHOOSE k \in 0..Len(s) :
        /\ \A i \in (Len(s) - k + 1)..Len(s) : s[i] \in cs
        /\ (k = Len(s) \/ s[Len(s) - k] \notin cs)

\* strings.TrimSpace
TrimSpace(s) ==
    LET a == LeadRun(s, IsSpace)
    IN  IF a = Len(s) THEN <<>>
        ELSE SubSeq(s, a + 1, Len(s) - TrailRun(s, IsSpace))

\* strings.HasPrefix
HasPrefix(s, p) == Len(s) >= Len(p) /\ SubSeq(s, 1, Len(p)) = p

\* strings.Count(s, c) for a one-character c
Count(s, c) == Cardinality({i \in 1..Len(s) : s[i] = c})

\* strings.Split(s, "\n")
RECURSIVE Split(_)
Split(s) ==
    IF \A i \in 1..Len(s) : s[i] # NL THEN <<s>>
    ELSE LET k == CHOOSE i \in 1..Len(s) :
                      s[i] = NL /\ \A j \in 1..(i - 1) : s[j] # NL
         IN  <<SubSeq(s, 1, k - 1)>> \o Split(SubSeq(s, k + 1, Len(s)))

\* strings.Join(lines, "\n")
RECURSIVE Join(_)
Join(lines) ==
    IF lines = <<>> THEN <<>>
    ELSE IF Len(lines) = 1 THEN lines[1]
    ELSE lines[1] \o <<NL>> \o Join(Tail(lines))

\* strings.Contains
Contains(s, sub) ==
    \E i \in 0..(Len(s) - Len(sub)) : SubSeq(s, i + 1, i + Len(sub)) = sub

----------------------------------------------------------------------------
(* Heading extraction: outline.go *)

\* the backquote character, named: the lexer takes no backquote in a string
BQ == "BQ"
Backticks == <<BQ, BQ, BQ>>
Tildes == <<"~", "~", "~">>

\* headingRegex.FindStringSubmatch(line) for
\*   (?m)^(#{1,6})\s+(.+?)(?:\s+#+)?$
\* on one line (no newline in it): <<>> when there is no match, otherwise
\* <<group 1, group 2>>.  Group 1 is the run of leading hashes (1 to 6 of
\* them, then white space must follow).  \s+ is greedy and gives one
\* character back only when nothing else is left for group 2.  Group 2 is
\* lazy: it stops at the first place from which white space and then hashes
\* run to the end of the line, and is the whole rest when there is none.
headingRegexAnyClosing(line) ==
    LET n == LeadRun(line, IsHash)
        afterHashes == SubSeq(line, n + 1, Len(line))
        w == LeadRun(afterHashes, IsSpace)
        rest == SubSeq(afterHashes, w + 1, Len(afterHashes))
        h == TrailRun(rest, IsHash)
        text == TrimSpace(SubSeq(rest, 1, Len(rest) - h))
    IN  IF n < 1 \/ n > 6 \/ w < 1 THEN <<>>
        ELSE IF rest = <<>>
             THEN IF w >= 2 THEN <<SubSeq(line, 1, n), <<afterHashes[w]>>>>
                  ELSE <<>>
        ELSE IF h >= 1 /\ text # <<>>
             THEN <<SubSeq(line, 1, n), text>>
        ELSE <<SubSeq(line, 1, n), rest>>
headingRegex(line) ==
    LET n == LeadRun(line, IsHash)
        afterHashes == SubSeq(line, n + 1, Len(line))
        w == LeadRun(afterHashes, IsSpace)
        rest == SubSeq(afterHashes, w + 1, Len(afterHashes))
        h == TrailRun(rest, IsHash)
        beforeH == SubSeq(rest, 1, Len(rest) - h)
        ws == TrailRun(beforeH, IsSpace)
        text == SubSeq(beforeH, 1, Len(beforeH) - ws)
    IN  IF n < 1 \/ n > 6 \/ w < 1 THEN <<>>
        ELSE IF rest = <<>>
             THEN IF w >= 2 THEN <<SubSeq(line, 1, n), <<afterHashes[w]>>>>
                  ELSE <<>>
        ELSE IF h >= 1 /\ ws >= 1 /\ text # <<>>
             THEN <<SubSeq(line, 1, n), text>>
        ELSE <<SubSeq(line, 1, n), rest>>

\* the fence test of parseHeadings, on the trimmed line
isFenceOnlyBackticks(trimmed) == HasPrefix(trimmed, Backticks)
isFence(trimmed) ==
    HasPrefix(trimmed, Backticks) \/ HasPrefix(trimmed, Tildes)

\* headings = append(headings, Heading{...})
prependHeading(hs, match, i) ==
    <<[Level |-> Len(match[1]), Text |-> TrimSpace(match[2]), Line |-> i]>>
        \o hs
appendHeading(hs, match, i) ==
    Append(hs, [Level |-> Len(match[1]),
                Text |-> TrimSpace(match[2]),
                Line |-> i])

\* the loop of parseHeadings over lines[i..], i counted from 1
RECURSIVE parseLoop(_, _, _, _)
parseLoop(lines, i, inCodeBlock, hs) ==
    IF i > Len(lines) THEN hs
    ELSE LET line == lines[i]
             trimmed == TrimSpace(line)
             match == headingRegex(line)
         IN  IF isFence(trimmed)
             THEN parseLoop(lines, i + 1, ~inCodeBlock, hs)
             ELSE IF inCodeBlock
             THEN parseLoop(lines, i + 1, inCodeBlock, hs)
             ELSE IF match # <<>>
             THEN parseLoop(lines, i + 1, inCodeBlock,
                            appendHeading(hs, match, i - 1))
             ELSE parseLoop(lines, i + 1, inCodeBlock, hs)

\* the loop with a flag that remembers the style: fence is <<>> outside a
\* block and the marker that opened it inside
RECURSIVE parseLoopStyled(_, _, _, _)
parseLoopStyled(lines, i, fence, hs) ==
    IF i > Len(lines) THEN hs
    ELSE LET line == lines[i]
             trimmed == TrimSpace(line)
             match == headingRegex(line)
         IN  IF fence = <<>> /\ HasPrefix(trimmed, Backticks)
             THEN parseLoopStyled(lines, i + 1, Backticks, hs)
             ELSE IF fence = <<>> /\ HasPrefix(trimmed, Tildes)
             THEN parseLoopStyled(lines, i + 1, Tildes, hs)
             ELSE IF fence # <<>>
             THEN parseLoopStyled(lines, i + 1,
                                  IF HasPrefix(trimmed, fence) THEN <<>>
                                  ELSE fence,
                                  hs)
             ELSE IF match # <<>>
             THEN parseLoopStyled(lines, i + 1, fence,
                                  appendHeading(hs, match, i - 1))
             ELSE parseLoopStyled(lines, i + 1, fence, hs)

parseHeadingsMatchingFences(markdown) ==
    parseLoopStyled(Split(markdown), 1, <<>>, <<>>)
parseHeadings(markdown) == parseLoop(Split(markdown), 1, FALSE, <<>>)

\* The Heading of the outline that pager.go uses carries a fourth field,
\* RenderedLine, which parseHeadings leaves unresolved (-1).
unresolvedHeadings(hs) ==
    [i \in 1..Len(hs) |->
        [Level |-> hs[i].Level, Text |-> hs[i].Text, Line |-> hs[i].Line,
         RenderedLine |-> -1]]

----------------------------------------------------------------------------
(* viewport.Model of the bubbles library, as far as the pager uses it: a   *)
(* record [YOffset, Height, Width, lines].  lines is nil until the first   *)
(* SetContent, which splits its text at the newlines.                      *)

newViewport(w, h) ==
    [YOffset |-> 0, Height |-> h, Width |-> w, lines |-> <<>>]

TotalLineCount(vp) == Len(vp.lines)
maxYOffset(vp) == Max(0, Len(vp.lines) - vp.Height)
AtTop(vp) == vp.YOffset <= 0
AtBottom(vp) == vp.YOffset >= maxYOffset(vp)
SetYOffset(vp, n) == [vp EXCEPT !.YOffset = Min(maxYOffset(vp), Max(0, n))]
GotoTop(vp) == IF AtTop(vp) THEN vp ELSE SetYOffset(vp, 0)
GotoBottom(vp) == SetYOffset(vp, maxYOffset(vp))

LineDown(vp, n) ==
    IF AtBottom(vp) \/ n = 0 \/ Len(vp.lines) = 0 THEN vp
    ELSE SetYOffset(vp, vp.YOffset + n)

LineUp(vp, n) ==
    IF AtTop(vp) \/ n = 0 \/ Len(vp.lines) = 0 THEN vp
    ELSE SetYOffset(vp, vp.YOffset - n)

HalfViewDown(vp) == IF AtBottom(vp) THEN vp ELSE LineDown(vp, vp.Height \div 2)
HalfViewUp(vp) == IF AtTop(vp) THEN vp ELSE LineUp(vp, vp.Height \div 2)
ViewDown(vp) == IF AtBottom(vp) THEN vp ELSE LineDown(vp, vp.Height)
ViewUp(vp) == IF AtTop(vp) THEN vp ELSE LineUp(vp, vp.Height)

\* SetContent with the text already split into its lines
SetLines(vp, lines) ==
    LET vp2 == [vp EXCEPT !.lines = lines]
    IN  IF vp2.YOffset > Len(lines) - 1 THEN GotoBottom(vp2) ELSE vp2

\* viewport.Update for a key message: the default key map
viewportUpdate(vp, key) ==
    CASE key \in {"f", "pgdown"} -> ViewDown(vp)
      [] key \in {"b", "pgup"} -> ViewUp(vp)
      [] key = "d" -> HalfViewDown(vp)
      [] key = "u" -> HalfViewUp(vp)
      [] key \in {"j", "down"} -> LineDown(vp, 1)
      [] key \in {"k", "up"} -> LineUp(vp, 1)
      [] OTHER -> vp

----------------------------------------------------------------------------
(* outlineModel: outline.go *)

newOutlineModel ==
    [headings |-> <<>>, cursor |-> 0, current |-> 0, width |-> 0,
     height |-> 0, visible |-> FALSE, focused |-> FALSE,
     viewport |-> newViewport(0, 0)]

\* One line of the sidebar: what of the outline state it shows.
renderHeadingLine(o, index, h) ==
    [text |-> h.Text,
     indent |-> h.Level - 1,
     prefix |-> IF index = o.current THEN ">" ELSE " ",
     style |-> IF o.focused /\ index = o.cursor THEN "cursor"
               ELSE IF index = o.current THEN "current"
               ELSE "normal"]

emptyLine == [text |-> <<>>, indent |-> 0, prefix |-> "", style |-> "none"]

updateViewport(o) ==
    IF Len(o.headings) = 0
    THEN [o EXCEPT !.viewport = SetLines(@, <<emptyLine>>)]
    ELSE [o EXCEPT !.viewport =
            SetLines(@, [i \in 1..Len(o.headings) |->
                            renderHeadingLine(o, i - 1, o.headings[i])])]

outlineSetContentKeepCursor(o, markdown) ==
    updateViewport([o EXCEPT !.headings =
                                unresolvedHeadings(parseHeadings(markdown)),
                             !.current = 0])
outlineSetContent(o, markdown) ==
    updateViewport([o EXCEPT !.headings =
                                unresolvedHeadings(parseHeadings(markdown)),
                             !.cursor = 0,
                             !.current = 0])

outlineSetSize(o, width, height) ==
    updateViewport([o EXCEPT !.width = width,
                             !.height = height,
                             !.viewport.Width = width,
                             !.viewport.Height = height])

calculateOutlineWidthNoMax(termWidth) ==
    IF termWidth < minTerminalWidth THEN 0
    ELSE Max(outlineMinWidth, (termWidth * outlineWidthPercent) \div 100)
calculateOutlineWidth(termWidth) ==
    IF termWidth < minTerminalWidth THEN 0
    ELSE LET width == (termWidth * outlineWidthPercent) \div 100
         IN  IF width < outlineMinWidth THEN outlineMinWidth
             ELSE IF width > outlineMaxWidth THEN outlineMaxWidth
             ELSE width

ensureCursorVisible(o) ==
    updateViewport(
        IF o.cursor < o.viewport.YOffset
        THEN [o EXCEPT !.viewport.YOffset = o.cursor]
        ELSE IF o.cursor >= o.viewport.YOffset + o.height
        THEN [o EXCEPT !.viewport.YOffset = o.cursor - o.height + 1]
        ELSE o)

ensureCurrentVisible(o) ==
    IF o.current < o.viewport.YOffset
    THEN [o EXCEPT !.viewport.YOffset = o.current]
    ELSE IF o.current >= o.viewport.YOffset + o.height
    THEN [o EXCEPT !.viewport.YOffset = o.current - o.height + 1]
    ELSE o

moveCursorUpUnguarded(o) == ensureCursorVisible([o EXCEPT !.cursor = @ - 1])
moveCursorUp(o) ==
    IF o.cursor > 0
    THEN ensureCursorVisible([o EXCEPT !.cursor = @ - 1])
    ELSE o

moveCursorDownUnbounded(o) == ensureCursorVisible([o EXCEPT !.cursor = @ + 1])
moveCursorDown(o) ==
    IF o.cursor < Len(o.headings) - 1
    THEN ensureCursorVisible([o EXCEPT !.cursor = @ + 1])
    ELSE o

\* the loop of updateCurrent: headings[i..] (i counted from 1), stopping
\* at the first heading after lineNum
RECURSIVE scanCurrentOneBased(_, _, _, _)
scanCurrentOneBased(hs, i, lineNum, newCurrent) ==
    IF i > Len(hs) THEN newCurrent
    ELSE IF hs[i].Line <= lineNum
         THEN scanCurrentOneBased(hs, i + 1, lineNum, i)
         ELSE newCurrent
RECURSIVE scanCurrent(_, _, _, _)
scanCurrent(hs, i, lineNum, newCurrent) ==
    IF i > Len(hs) THEN newCurrent
    ELSE IF hs[i].Line <= lineNum
         THEN scanCurrent(hs, i + 1, lineNum, i - 1)
         ELSE newCurrent

updateCurrentStrict(o, lineNum) ==
    LET before == {i \in 1..Len(o.headings) : o.headings[i].Line < lineNum}
    IN  IF Len(o.headings) = 0 THEN o
        ELSE updateViewport(ensureCurrentVisible(
                 [o EXCEPT !.current = Max(0, Cardinality(before) - 1)]))
updateCurrent(o, lineNum) ==
    IF Len(o.headings) = 0 THEN o
    ELSE LET newCurrent == scanCurrent(o.headings, 1, lineNum, 0)
         IN  IF newCurrent # o.current
             THEN updateViewport(
                      ensureCurrentVisible([o EXCEPT !.current = newCurrent]))
             ELSE o

nextHeadingIndexOff(o) ==
    IF o.current < Len(o.headings) THEN o.current + 1 ELSE -1
nextHeadingIndex(o) ==
    IF o.current < Len(o.headings) - 1 THEN o.current + 1 ELSE -1

prevHeadingIndex(o) ==
    IF o.current > 0 THEN o.current - 1 ELSE -1

\* outlineModel.View: the heading lines the sidebar draws under its title,
\* the first height - 1 of the list
outlineView(o) ==
    IF ~o.visible \/ Len(o.headings) = 0 THEN <<>>
    ELSE [i \in 1..Min(Len(o.headings), Max(0, o.height - 1)) |->
             renderHeadingLine(o, i - 1, o.headings[i])]

----------------------------------------------------------------------------
(* Rendered-line mapping.  The outline.go that carries RenderedLine is not *)
(* among the sources; these follow the specification's section 4.2 and the *)
(* tests of mapHeadingsToRenderedLines and stripANSI.                      *)

ESC == "ESC"
Upper == [c \in {"a", "b", "x"} |-> CASE c = "a" -> "A" [] c = "b" -> "B"
                                      [] OTHER -> "X"]

\* strings.ToLower on the letters of the model's alphabet
ToLower(s) ==
    [i \in 1..Len(s) |->
        IF \E c \in DOMAIN Upper : Upper[c] = s[i]
        THEN CHOOSE c \in DOMAIN Upper : Upper[c] = s[i]
        ELSE s[i]]

\* stripANSI: every escape sequence ESC [ ... m is removed
RECURSIVE stripANSI(_)
stripANSI(s) ==
    IF s = <<>> THEN <<>>
    ELSE IF s[1] = ESC /\ Len(s) >= 2 /\ s[2] = "["
              /\ \E j \in 3..Len(s) : s[j] = "m"
         THEN LET j == CHOOSE j \in 3..Len(s) :
                          s[j] = "m" /\ \A k \in 3..(j - 1) : s[k] # "m"
              IN  stripANSI(SubSeq(s, j + 1, Len(s)))
         ELSE <<s[1]>> \o stripANSI(Tail(s))

\* the lines of the rendered text as they are compared: without escape
\* sequences, in lower case
RECURSIVE cleanLinesKeepCase(_)
cleanLinesKeepCase(lines) ==
    IF lines = <<>> THEN <<>>
    ELSE <<stripANSI(Head(lines))>> \o cleanLinesKeepCase(Tail(lines))
RECURSIVE cleanLines(_)
cleanLines(lines) ==
    IF lines = <<>> THEN <<>>
    ELSE <<ToLower(stripANSI(Head(lines)))>> \o cleanLines(Tail(lines))

\* headings[i..] searched in lines[searchStart..] (0-based line numbers),
\* lines being the cleaned lines
RECURSIVE mapLoopFromTop(_, _, _, _)
mapLoopFromTop(hs, i, lines, searchStart) ==
    IF i > Len(hs) THEN hs
    ELSE LET found == {j \in 0..(Len(lines) - 1) :
                          Contains(lines[j + 1], ToLower(hs[i].Text))}
         IN  IF found = {}
             THEN mapLoopFromTop([hs EXCEPT ![i].RenderedLine = -1],
                                 i + 1, lines, searchStart)
             ELSE LET j == CHOOSE j \in found : \A k \in found : j <= k
                  IN  mapLoopFromTop([hs EXCEPT ![i].RenderedLine = j],
                                     i + 1, lines, j + 1)
RECURSIVE mapLoopSkipLine(_, _, _, _)
mapLoopSkipLine(hs, i, lines, searchStart) ==
    IF i > Len(hs) THEN hs
    ELSE LET found == {j \in searchStart..(Len(lines) - 1) :
                          Contains(lines[j + 1], ToLower(hs[i].Text))}
         IN  IF found = {}
             THEN mapLoopSkipLine([hs EXCEPT ![i].RenderedLine = -1],
                                  i + 1, lines, searchStart + 1)
             ELSE LET j == CHOOSE j \in found : \A k \in found : j <= k
                  IN  mapLoopSkipLine([hs EXCEPT ![i].RenderedLine = j],
                                      i + 1, lines, j + 1)
RECURSIVE mapLoop(_, _, _, _)
mapLoop(hs, i, lines, searchStart) ==
    IF i > Len(hs) THEN hs
    ELSE LET found == {j \in searchStart..(Len(lines) - 1) :
                          Contains(lines[j + 1], ToLower(hs[i].Text))}
         IN  IF found = {}
             THEN mapLoop([hs EXCEPT ![i].RenderedLine = -1],
                          i + 1, lines, searchStart)
             ELSE LET j == CHOOSE j \in found : \A k \in found : j <= k
                  IN  mapLoop([hs EXCEPT ![i].RenderedLine = j],
                              i + 1, lines, j + 1)

mapHeadingsToRenderedLinesNoGuard(o, rendered) ==
    [o EXCEPT !.headings = mapLoop(@, 1, cleanLines(Split(rendered)), 0)]
mapHeadingsToRenderedLines(o, rendered) ==
    IF rendered = <<>> THEN o
    ELSE [o EXCEPT !.headings = mapLoop(@, 1, cleanLines(Split(rendered)), 0)]

----------------------------------------------------------------------------
(* pagerModel: pager.go *)

\* utils.IsMarkdownFile on the file names of the model
IsMarkdownFile(name) == name \in {"README.md", "doc.markdown", ""}

newPagerModel(cfgShowOutline) ==
    [viewport |-> newViewport(0, 0),
     currentDocument |-> [Note |-> "", Body |-> <<>>],
     outline |-> newOutlineModel,
     showOutline |-> cfgShowOutline,
     outlineFocused |-> FALSE]

isMarkdownFile(pm) == IsMarkdownFile(pm.currentDocument.Note)

pagerSetSizeAnyFile(pm, w, h) ==
    LET outlineWidth == IF pm.showOutline THEN calculateOutlineWidth(w) ELSE 0
        shown == pm.showOutline /\ outlineWidth > 0
        o == IF shown
             THEN outlineSetSize([pm.outline EXCEPT !.visible = TRUE],
                                 outlineWidth, h - statusBarHeight)
             ELSE [pm.outline EXCEPT !.visible = FALSE]
    IN  [pm EXCEPT !.outline = o,
                   !.viewport.Width = IF shown THEN w - outlineWidth ELSE w,
                   !.viewport.Height = h - statusBarHeight]
pagerSetSize(pm, w, h) ==
    LET outlineWidth ==
            IF pm.showOutline /\ isMarkdownFile(pm)
            THEN calculateOutlineWidth(w) ELSE 0
        shown == pm.showOutline /\ isMarkdownFile(pm) /\ outlineWidth > 0
        contentWidth == IF shown THEN w - outlineWidth ELSE w
        o == IF shown
             THEN outlineSetSize([pm.outline EXCEPT !.visible = TRUE],
                                 outlineWidth, h - statusBarHeight)
             ELSE [pm.outline EXCEPT !.visible = FALSE]
    IN  [pm EXCEPT !.outline = o,
                   !.viewport.Width = contentWidth,
                   !.viewport.Height = h - statusBarHeight]

pagerSetContent(pm, s) == [pm EXCEPT !.viewport = SetLines(@, Split(s))]

\* unload: the content is emptied and the offset reset; the outline is not
\* touched
unload(pm) == [pagerSetContent(pm, <<>>) EXCEPT !.viewport.YOffset = 0]

\* int(float64(a) / float64(b) * float64(c)) for 0 <= a < b and 0 <= c.
\* The double-precision product, truncated, is the exact quotient for all
\* operands below 22, which covers every line count of the model.
scaleRatio(a, b, c) == (a * c) \div b

totalRawLines(pm) == Count(pm.currentDocument.Body, NL) + 1

\* the target line of jumpToHeading for an in-range heading
targetLineOfNoFallback(pm, heading) == heading.RenderedLine
targetLineOf(pm, heading) ==
    IF heading.RenderedLine < 0
    THEN scaleRatio(heading.Line, totalRawLines(pm),
                    TotalLineCount(pm.viewport))
    ELSE heading.RenderedLine

\* the scroll offset jumpToHeading applies for a target line
scrollTargetNoClamp(pm, targetLine) == Max(0, targetLine - scrollOff)
scrollTargetOf(pm, targetLine) ==
    LET scrollTarget == Max(0, targetLine - scrollOff)
        maxOffset == Max(0, TotalLineCount(pm.viewport) - pm.viewport.Height)
    IN  Min(scrollTarget, maxOffset)

jumpToHeadingCurrentOnly(pm, headingIndex) ==
    IF headingIndex < 0 \/ headingIndex >= Len(pm.outline.headings) THEN pm
    ELSE LET heading == pm.outline.headings[headingIndex + 1]
         IN  [pm EXCEPT
                !.viewport.YOffset =
                    scrollTargetOf(pm, targetLineOf(pm, heading)),
                !.outline = updateViewport([@ EXCEPT
                                                !.current = headingIndex])]
jumpToHeadingClamped(pm, headingIndex) ==
    LET n == Len(pm.outline.headings)
        i == Max(0, Min(headingIndex, n - 1))
    IN  IF n = 0 THEN pm
        ELSE [pm EXCEPT
                !.viewport.YOffset =
                    scrollTargetOf(pm, targetLineOf(pm, pm.outline.headings[i + 1])),
                !.outline = updateViewport([@ EXCEPT !.current = i,
                                                     !.cursor = i])]
jumpToHeading(pm, headingIndex) ==
    IF headingIndex < 0 \/ headingIndex >= Len(pm.outline.headings) THEN pm
    ELSE LET heading == pm.outline.headings[headingIndex + 1]
         IN  [pm EXCEPT
                !.viewport.YOffset =
                    scrollTargetOf(pm, targetLineOf(pm, heading)),
                !.outline = updateViewport([@ EXCEPT
                                                !.current = headingIndex,
                                                !.cursor = headingIndex])]

\* the raw line updateCurrentHeading derives from the scroll offset
rawLineOfOffset(pm) == pm.viewport.YOffset
rawLineOf(pm) ==
    scaleRatio(pm.viewport.YOffset, TotalLineCount(pm.viewport),
               totalRawLines(pm))

updateCurrentHeading(pm) ==
    IF Len(pm.outline.headings) = 0 THEN pm
    ELSE IF TotalLineCount(pm.viewport) = 0 THEN pm
    ELSE [pm EXCEPT !.outline = updateCurrent(@, rawLineOf(pm))]

----------------------------------------------------------------------------
(* The renderer (glamour behind MarkdownRenderer) is a black box to the    *)
(* pager.  The model lets it answer with the markdown as it is (glamour    *)
(* disabled, and the renderer of the tests) or with a styled text: a       *)
(* heading line becomes its text, a fence line a blank line, the lines of  *)
(* a code block stay as they are, and k - 1 blank lines precede each line.  *)

RECURSIVE blankLines(_)
blankLines(n) == IF n <= 0 THEN <<>> ELSE <<<<>>>> \o blankLines(n - 1)

\* fence is <<>> outside a code block and the marker that opened it inside
RECURSIVE renderLoop(_, _, _, _)
renderLoop(lines, i, fence, k) ==
    IF i > Len(lines) THEN <<>>
    ELSE LET line == lines[i]
             trimmed == TrimSpace(line)
             match == headingRegex(line)
             opens == IF HasPrefix(trimmed, Backticks) THEN Backticks
                      ELSE IF HasPrefix(trimmed, Tildes) THEN Tildes
                      ELSE <<>>
             closes == fence # <<>> /\ HasPrefix(trimmed, fence)
             out == IF fence # <<>> THEN (IF closes THEN <<>> ELSE line)
                    ELSE IF opens # <<>> THEN <<>>
                    ELSE IF match # <<>> THEN TrimSpace(match[2])
                    ELSE line
             next == IF fence # <<>> THEN (IF closes THEN <<>> ELSE fence)
                     ELSE opens
         IN  blankLines(k - 1) \o <<out>> \o renderLoop(lines, i + 1, next, k)

renderStyled(markdown, k) == Join(renderLoop(Split(markdown), 1, <<>>, k))

\* what glamourRender may answer for a document body
Renderings(markdown) == {markdown, renderStyled(markdown, MaxStretch)}

\* The rendered texts the mapping is called with: 1 the empty text, 2 and
\* 3 the renderings of the document, 4 and 5 texts that are not: one with
\* the heading texts out of order, repeated, in capitals and styled, and
\* one with a single heading text.
TextBAB == Join(<<<<"b">>, <<ESC, "[", "1", "m", "A">>, <<"b">>>>)
TextXB == Join(<<<<"x">>, <<"B">>>>)
RenderedText(markdown, k) ==
    CASE k = 1 -> <<>>
      [] k = 2 -> markdown
      [] k = 3 -> renderStyled(markdown, MaxStretch)
      [] k = 4 -> TextBAB
      [] OTHER -> TextXB

----------------------------------------------------------------------------
(* Documents of the model *)

LineA == <<"#", " ", "a">>
LineB == <<"#", "#", " ", "b">>
LineX == <<"x">>
RawLineSet == {LineA, LineB, LineX, Backticks, Tildes}
\* the lines of the documents the scrolling is explored on
PlainLineSet == {LineA, LineX}

\* every document of at most MaxDocLines lines over a set of lines
DocsOver(lineSet) ==
    {Join(ls) : ls \in UNION {[1..n -> lineSet] : n \in 0..MaxDocLines}}
Docs == DocsOver(RawLineSet)
PlainDocs == DocsOver(PlainLineSet)
\* the documents a shown document is replaced by: no heading, one, two
OtherDocs == {LineX, LineA, Join(<<LineX, LineB, LineA>>)}

\* the terminal sizes of the model; the viewport is one line shorter than
\* the terminal, and a terminal under minTerminalWidth shows no sidebar
TermHeights == {3, 9}
\* the height the UI loop is explored at: both renderings scroll in it
PagerHeights == {3}
TermWidths == {60, 100}

----------------------------------------------------------------------------
(* SpecOutline and SpecScroll: the outline core driven directly, one call  *)
(* per step, as the unit tests drive it.  The pager holds one markdown     *)
(* document.  SpecOutline makes the calls on the outline alone, over every *)
(* document; SpecScroll makes the calls that go between the outline and    *)
(* the content viewport, over the documents without fences, in a short and *)
(* in a tall terminal.                                                     *)

\* no preprocessor is at work while the pager is driven
noPreprocessor ==
    [state |-> "none", segments |-> <<>>, markdown |-> <<>>,
     renderFunc |-> <<>>, Calls |-> <<>>, result |-> <<>>]

Did(op, arg, ret) ==
    /\ last' = [op |-> op, arg |-> arg, ret |-> ret]
    /\ UNCHANGED pp

InitWith(bodies, heights) ==
    \E body \in bodies, height \in heights :
        /\ common = [width |-> 100, height |-> height]
        /\ m = pagerSetSize(
                   [newPagerModel(TRUE) EXCEPT
                       !.currentDocument =
                           [Note |-> "README.md", Body |-> body]],
                   100, height)
        /\ inflight = {}
        /\ last = [op |-> "new", arg |-> 0, ret |-> 0]
        /\ pp = noPreprocessor

InitOutline == InitWith(Docs, PagerHeights)
InitScroll == InitWith(PlainDocs, TermHeights)

CallPagerSetContent ==
    \E r \in Renderings(m.currentDocument.Body) :
        /\ m' = pagerSetContent(m, r)
        /\ Did("pagerSetContent", 0, 0)
        /\ UNCHANGED <<common, inflight>>

\* outline.setContent(m.currentDocument.Body); last tells where the cursor
\* was and how many headings there were
CallOutlineSetContent ==
    /\ m' = [m EXCEPT !.outline =
                outlineSetContent(@, m.currentDocument.Body)]
    /\ Did("setContent", m.outline.cursor, Len(m.outline.headings))
    /\ UNCHANGED <<common, inflight>>

\* outline.setContent(markdown), with the document the pager holds or with
\* another one, which the pager then holds
CallSetContent ==
    \E markdown \in {m.currentDocument.Body} \cup OtherDocs :
        /\ m' = [m EXCEPT !.currentDocument.Body = markdown,
                          !.outline = outlineSetContent(@, markdown)]
        /\ Did("setContent", m.outline.cursor, Len(m.outline.headings))
        /\ UNCHANGED <<common, inflight>>

\* outline.mapHeadingsToRenderedLines(rendered); last tells the length of
\* the text and which text it was
MapHeadings(ks) ==
    \E k \in ks :
        LET r == RenderedText(m.currentDocument.Body, k)
        IN  /\ m' = [m EXCEPT !.outline = mapHeadingsToRenderedLines(@, r)]
            /\ Did("mapHeadingsToRenderedLines", Len(r), k)
            /\ UNCHANGED <<common, inflight>>

CallMapHeadings == MapHeadings(1..3)
CallMapHeadingsOther == MapHeadings(4..5)

CallMoveCursorUp ==
    /\ m' = [m EXCEPT !.outline = moveCursorUp(@)]
    /\ Did("moveCursorUp", 0, 0)
    /\ UNCHANGED <<common, inflight>>

CallMoveCursorDown ==
    /\ m' = [m EXCEPT !.outline = moveCursorDown(@)]
    /\ Did("moveCursorDown", 0, 0)
    /\ UNCHANGED <<common, inflight>>

CallUpdateCurrent ==
    \E lineNum \in -1..MaxDocLines :
        /\ m' = [m EXCEPT !.outline = updateCurrent(@, lineNum)]
        /\ Did("updateCurrent", lineNum, 0)
        /\ UNCHANGED <<common, inflight>>

CallJumpToHeading ==
    \E headingIndex \in -1..MaxDocLines :
        /\ m' = jumpToHeading(m, headingIndex)
        /\ Did("jumpToHeading", headingIndex, 0)
        /\ UNCHANGED <<common, inflight>>

CallUpdateCurrentHeading ==
    /\ m' = updateCurrentHeading(m)
    /\ Did("updateCurrentHeading", 0, 0)
    /\ UNCHANGED <<common, inflight>>

CallNextHeadingIndex ==
    /\ Did("nextHeadingIndex", 0, nextHeadingIndex(m.outline))
    /\ UNCHANGED <<m, common, inflight>>

CallPrevHeadingIndex ==
    /\ Did("prevHeadingIndex", 0, prevHeadingIndex(m.outline))
    /\ UNCHANGED <<m, common, inflight>>

NextOutline ==
    \/ CallSetContent
    \/ CallMapHeadings
    \/ CallMapHeadingsOther
    \/ CallMoveCursorUp
    \/ CallMoveCursorDown
    \/ CallUpdateCurrent
    \/ CallNextHeadingIndex
    \/ CallPrevHeadingIndex

SpecOutline == InitOutline /\ [][NextOutline]_vars

NextScroll ==
    \/ CallPagerSetContent
    \/ CallOutlineSetContent
    \/ CallMapHeadings
    \/ CallJumpToHeading
    \/ CallUpdateCurrentHeading

SpecScroll == InitScroll /\ [][NextScroll]_vars

----------------------------------------------------------------------------
(* pagerModel.update: pager.go.  One operator per case of the switch; each *)
(* is the whole turn, the end of the turn included unless the case         *)
(* returns early.  The cases that touch only state the model does not hold *)
(* (the editor, the clipboard, the help view, the status message) fall     *)
(* through to the end of the turn like any other key.                      *)

\* glamourRender: the text a render command dispatched now will deliver
glamourRender(pm, cm, markdown) ==
    IF ~cm.glamour THEN markdown
    ELSE IF IsMarkdownFile(pm.currentDocument.Note)
         THEN renderStyled(markdown, MaxStretch)
         ELSE markdown

\* the end of a turn: viewport.Update, then the scroll-derived current
endOfTurnAnyFocus(pm, key) ==
    LET pm2 == [pm EXCEPT !.viewport = viewportUpdate(@, key)]
    IN  IF pm2.showOutline /\ pm2.outline.visible
        THEN updateCurrentHeading(pm2) ELSE pm2
endOfTurn(pm, key) ==
    LET pm2 == [pm EXCEPT !.viewport = viewportUpdate(@, key)]
    IN  IF pm2.showOutline /\ pm2.outline.visible /\ ~pm2.outlineFocused
        THEN updateCurrentHeading(pm2) ELSE pm2

\* "home"/"g", "end"/"G", "d", "u", and the keys with no case of their own
updatePlainKey(pm, key) ==
    endOfTurn([pm EXCEPT !.viewport =
                  CASE key \in {"home", "g"} -> GotoTop(@)
                    [] key \in {"end", "G"} -> GotoBottom(@)
                    [] key = "d" -> HalfViewDown(@)
                    [] key = "u" -> HalfViewUp(@)
                    [] OTHER -> @],
              key)

\* "o" on a markdown file; it returns early with a render command
updateToggleOutlineKeepFocus(pm, cm) ==
    LET on == ~pm.showOutline
    IN  pagerSetSize(
            [pm EXCEPT !.showOutline = on,
                       !.outline =
                           IF on
                           THEN outlineSetContent(@, pm.currentDocument.Body)
                           ELSE @],
            cm.width, cm.height)
updateToggleOutline(pm, cm) ==
    LET on == ~pm.showOutline
    IN  pagerSetSize(
            [pm EXCEPT !.showOutline = on,
                       !.outlineFocused = IF on THEN @ ELSE FALSE,
                       !.outline =
                           IF on
                           THEN outlineSetContent(@, pm.currentDocument.Body)
                           ELSE @],
            cm.width, cm.height)

updateTabUnguarded(pm) ==
    endOfTurn(
        LET f == ~pm.outlineFocused
        IN  [pm EXCEPT !.outlineFocused = f,
                       !.outline = updateViewport(
                           [@ EXCEPT !.focused = f,
                                     !.cursor = IF f THEN pm.outline.current
                                                ELSE @])],
        "tab")
updateTabNoSync(pm) ==
    endOfTurn(
        IF pm.showOutline /\ pm.outline.visible
        THEN LET f == ~pm.outlineFocused
             IN  [pm EXCEPT !.outlineFocused = f,
                            !.outline = updateViewport([@ EXCEPT !.focused = f])]
        ELSE pm,
        "tab")
updateTab(pm) ==
    endOfTurn(
        IF pm.showOutline /\ pm.outline.visible
        THEN LET f == ~pm.outlineFocused
             IN  [pm EXCEPT !.outlineFocused = f,
                            !.outline = updateViewport(
                                [@ EXCEPT !.focused = f,
                                          !.cursor = IF f THEN pm.outline.current
                                                     ELSE @])]
        ELSE pm,
        "tab")

updateNextHeading(pm) ==
    endOfTurn(
        IF pm.showOutline /\ Len(pm.outline.headings) > 0
              /\ nextHeadingIndex(pm.outline) >= 0
        THEN jumpToHeading(pm, nextHeadingIndex(pm.outline))
        ELSE pm,
        "]")

updatePrevHeading(pm) ==
    endOfTurn(
        IF pm.showOutline /\ Len(pm.outline.headings) > 0
              /\ prevHeadingIndex(pm.outline) >= 0
        THEN jumpToHeading(pm, prevHeadingIndex(pm.outline))
        ELSE pm,
        "[")

updateEnterAtCurrent(pm) ==
    endOfTurn(
        IF pm.outlineFocused /\ pm.outline.visible
        THEN jumpToHeading(pm, pm.outline.current)
        ELSE pm,
        "enter")
updateEnter(pm) ==
    endOfTurn(
        IF pm.outlineFocused /\ pm.outline.visible
        THEN jumpToHeading(pm, pm.outline.cursor)
        ELSE pm,
        "enter")

\* "j"/"down": the sidebar's cursor when it has the focus, returning early
updateDownNoReturn(pm) ==
    endOfTurn(IF pm.outlineFocused /\ pm.outline.visible
              THEN [pm EXCEPT !.outline = moveCursorDown(@)]
              ELSE pm,
              "j")
updateDown(pm) ==
    IF pm.outlineFocused /\ pm.outline.visible
    THEN [pm EXCEPT !.outline = moveCursorDown(@)]
    ELSE endOfTurn(pm, "j")

updateUp(pm) ==
    IF pm.outlineFocused /\ pm.outline.visible
    THEN [pm EXCEPT !.outline = moveCursorUp(@)]
    ELSE endOfTurn(pm, "k")

updateContentRenderedFirstWins(pm, cm, msg) ==
    IF TotalLineCount(pm.viewport) > 0 THEN endOfTurn(pm, "")
    ELSE LET pm1 == pagerSetContent(pagerSetSize(pm, cm.width, cm.height),
                                    msg)
             pm2 == IF isMarkdownFile(pm1)
                    THEN [pm1 EXCEPT !.outline =
                             mapHeadingsToRenderedLines(
                                 outlineSetContent(@, pm1.currentDocument.Body),
                                 msg)]
                    ELSE pm1
         IN  endOfTurn(pm2, "")
updateContentRendered(pm, cm, msg) ==
    LET pm1 == pagerSetContent(pagerSetSize(pm, cm.width, cm.height), msg)
        pm2 == IF isMarkdownFile(pm1)
               THEN [pm1 EXCEPT !.outline =
                        mapHeadingsToRenderedLines(
                            outlineSetContent(@, pm1.currentDocument.Body),
                            msg)]
               ELSE pm1
    IN  endOfTurn(pm2, "")

----------------------------------------------------------------------------
(* Spec: the UI loop.  A pager shows one of a few documents; every step is *)
(* one message handled by update.  The parent model (ui.go) comes in where *)
(* it acts before the pager does: on a resize it stores the new size and   *)
(* calls setSize, on a reloaded file it stores what was read and           *)
(* dispatches the render.  last.op is the message handled last; last.arg   *)
(* tells, for a key with no case of its own, whether the content scrolled, *)
(* for "j" and "k" where the cursor was, for "tab" and "enter" what        *)
(* current was, for "o" whether the outline was on, and for a delivered    *)
(* render whether it replaced another content.                             *)

\* the file shown, and what may be read from it: two headings, or none
PagerFiles == {"README.md", "code.go"}
FileBodies == {Join(<<LineA, LineB, LineX>>), LineX}

PlainKeys == {"g", "G", "d", "u", "f", "b", "q"}

Init ==
    \E note \in PagerFiles, body \in FileBodies,
       w \in TermWidths, h \in PagerHeights,
       cfgShowOutline \in BOOLEAN, cfgGlamour \in BOOLEAN :
        /\ common = [width |-> w, height |-> h, glamour |-> cfgGlamour]
        /\ m = pagerSetSize(
                   [newPagerModel(cfgShowOutline) EXCEPT
                       !.currentDocument = [Note |-> note, Body |-> body]],
                   w, h)
        /\ inflight = {glamourRender(m, common, body)}
        /\ last = [op |-> "new", arg |-> 0, ret |-> 0]
        /\ pp = noPreprocessor

CanDispatch == Cardinality(inflight) < MaxInFlight
Dispatch == inflight' = inflight \cup
                {glamourRender(m', common', m'.currentDocument.Body)}

KeyPlain ==
    \E key \in PlainKeys :
        /\ m' = updatePlainKey(m, key)
        /\ Did("key", IF m'.viewport.YOffset # m.viewport.YOffset
                      THEN 1 ELSE 0, 0)
        /\ UNCHANGED <<common, inflight>>

KeyToggleOutline ==
    /\ isMarkdownFile(m) => CanDispatch
    /\ m' = IF isMarkdownFile(m) THEN updateToggleOutline(m, common)
            ELSE endOfTurn(m, "o")
    /\ Did("o", IF m.showOutline THEN 1 ELSE 0, 0)
    /\ UNCHANGED common
    /\ IF isMarkdownFile(m) THEN Dispatch ELSE UNCHANGED inflight

KeyTab ==
    /\ m' = updateTab(m)
    /\ Did("tab", m.outline.current, 0)
    /\ UNCHANGED <<common, inflight>>

KeyNextHeading ==
    /\ m' = updateNextHeading(m)
    /\ Did("]", 0, 0)
    /\ UNCHANGED <<common, inflight>>

KeyPrevHeading ==
    /\ m' = updatePrevHeading(m)
    /\ Did("[", 0, 0)
    /\ UNCHANGED <<common, inflight>>

KeyEnter ==
    /\ m' = updateEnter(m)
    /\ Did("enter", m.outline.current, 0)
    /\ UNCHANGED <<common, inflight>>

KeyDown ==
    /\ m' = updateDown(m)
    /\ Did("j", m.outline.cursor, 0)
    /\ UNCHANGED <<common, inflight>>

KeyUp ==
    /\ m' = updateUp(m)
    /\ Did("k", m.outline.cursor, 0)
    /\ UNCHANGED <<common, inflight>>

ContentRendered ==
    \E msg \in inflight :
        /\ m' = updateContentRendered(m, common, msg)
        /\ inflight' = inflight \ {msg}
        /\ Did("contentRendered",
               IF m.viewport.lines \notin {<<>>, Split(msg)} THEN 1 ELSE 0, 0)
        /\ UNCHANGED common

\* tea.WindowSizeMsg: update itself only returns the render command
WindowSize ==
    \E w \in TermWidths, h \in PagerHeights :
        /\ CanDispatch
        /\ common' = [common EXCEPT !.width = w, !.height = h]
        /\ m' = pagerSetSize(m, w, h)
        /\ Dispatch
        /\ Did("windowSize", 0, 0)

\* "r", reloadMsg, editorFinishedMsg: the file is read again, and what was
\* read reaches the pager
LoadDocument ==
    \E body \in FileBodies :
        /\ CanDispatch
        /\ m' = [m EXCEPT !.currentDocument.Body = body]
        /\ UNCHANGED common
        /\ Dispatch
        /\ Did("load", 0, 0)

Next ==
    \/ KeyPlain
    \/ KeyToggleOutline
    \/ KeyTab
    \/ KeyNextHeading
    \/ KeyPrevHeading
    \/ KeyEnter
    \/ KeyDown
    \/ KeyUp
    \/ ContentRendered
    \/ WindowSize
    \/ LoadDocument

Spec == Init /\ [][Next]_vars

----------------------------------------------------------------------------
(* SpecDocs: the UI loop of a pager that shows one file after another.     *)
(* The parent model leaves a document with unload and opens the next one   *)
(* by storing it in the pager and dispatching its render.  The messages    *)
(* are those that build the outline or jump by it.                         *)

OpenDocument ==
    \E note \in PagerFiles, body \in FileBodies :
        /\ CanDispatch
        /\ m' = [unload(m) EXCEPT
                    !.currentDocument = [Note |-> note, Body |-> body]]
        /\ UNCHANGED common
        /\ Dispatch
        /\ Did("open", 0, 0)

NextDocs ==
    \/ OpenDocument
    \/ LoadDocument
    \/ ContentRendered
    \/ KeyToggleOutline
    \/ KeyTab
    \/ KeyNextHeading
    \/ KeyPrevHeading
    \/ KeyEnter

SpecDocs == Init /\ [][NextDocs]_vars

----------------------------------------------------------------------------
(* SpecCore: every call of the outline core, those on the outline alone    *)
(* and those that go between the outline and the content viewport, on      *)
(* documents with no heading (the empty document, a line of text, a        *)
(* heading line inside a fenced block) and on two documents with headings. *)

CoreDocs ==
    {<<>>, LineX, Join(<<Tildes, LineA, Backticks>>), LineA,
     Join(<<LineA, LineB, LineX>>)}

InitCore == InitWith(CoreDocs, PagerHeights)

NextCore == NextOutline \/ NextScroll

SpecCore == InitCore /\ [][NextCore]_vars

----------------------------------------------------------------------------
(* SpecParse: the extractor alone.  outline.setContent is called once on a *)
(* document of up to MaxDocLines lines drawn from the shapes a line can    *)
(* have for the fence test and for the heading pattern.                    *)

\* fence lines: a bare marker, one with a language tag, a longer one; and a
\* line of text that begins with a code span of three backquotes
TaggedFence == Backticks \o <<"g", "o">>
LongTildes == Tildes \o <<"~">>
SpanLine == Backticks \o <<"x">> \o Backticks \o <<" ", "x">>
\* heading shapes: six and seven hashes, no space after the hash, a closing
\* run of hashes set off by a space and one that is not, a hash followed
\* by white space only, a hash after a leading space
SixHashes == <<"#", "#", "#", "#", "#", "#", " ", "a">>
SevenHashes == <<"#">> \o SixHashes
NoSpaceLine == <<"#", "a">>
ClosedLine == <<"#", " ", "a", " ", "#", "#">>
UnseparatedLine == <<"#", " ", "a", "#", "#">>
BlankHeadingLine == <<"#", " ", " ">>
IndentedLine == <<" ">> \o LineA

ParseLines ==
    {LineA, LineB, LineX, Backticks, TaggedFence, LongTildes, SpanLine,
     SixHashes, SevenHashes, NoSpaceLine, ClosedLine, UnseparatedLine,
     BlankHeadingLine, IndentedLine}

InitParse == InitWith(DocsOver(ParseLines), PagerHeights)

NextParse == CallOutlineSetContent

SpecParse == InitParse /\ [][NextParse]_vars

----------------------------------------------------------------------------
(* SpecSize: the layout.  A pager that holds a markdown file or another    *)
(* file, in a terminal of any width up to MaxTermWidth; the outline is     *)
(* switched on and off as the tests do it, by the field, and the pager is  *)
(* sized to the terminal.                                                  *)

\* the widest terminal of the layout model
MaxTermWidth == 250

InitSize ==
    \E note \in PagerFiles, cfgShowOutline \in BOOLEAN,
       w \in 0..MaxTermWidth, h \in TermHeights :
        /\ common = [width |-> w, height |-> h]
        /\ m = [newPagerModel(cfgShowOutline) EXCEPT
                   !.currentDocument =
                       [Note |-> note, Body |-> Join(<<LineA, LineB, LineX>>)]]
        /\ inflight = {}
        /\ last = [op |-> "new", arg |-> 0, ret |-> 0]
        /\ pp = noPreprocessor

\* m.showOutline = true / false, as the tests set it
CallSetShowOutline ==
    \E b \in BOOLEAN :
        /\ m' = [m EXCEPT !.showOutline = b]
        /\ Did("showOutline", 0, 0)
        /\ UNCHANGED <<common, inflight>>

\* m.setSize(common.width, common.height); last tells whether the sidebar
\* was visible before
CallPagerSetSize ==
    /\ m' = pagerSetSize(m, common.width, common.height)
    /\ Did("setSize", IF m.outline.visible THEN 1 ELSE 0, 0)
    /\ UNCHANGED <<common, inflight>>

CallCalculateOutlineWidth ==
    /\ Did("calculateOutlineWidth", common.width,
           calculateOutlineWidth(common.width))
    /\ UNCHANGED <<m, common, inflight>>

NextSize ==
    \/ CallSetShowOutline
    \/ CallPagerSetSize
    \/ CallCalculateOutlineWidth

SpecSize == InitSize /\ [][NextSize]_vars

----------------------------------------------------------------------------
(* The diagram preprocessor: mermaid.go.  A text is a sequence of tokens:  *)
(* characters, the word mermaid, and the fixed texts the preprocessor      *)
(* writes.                                                                 *)

Mermaid == <<"mermaid">>
ErrTooComplex == "diagram too complex for ASCII rendering"
tooComplexNote == <<"  ! [Diagram too complex for terminal]">>

\* the first position k >= from at which sub occurs in s, 0 for none
IndexFrom(s, sub, from) ==
    LET at == {k \in from..(Len(s) - Len(sub) + 1) :
                  SubSeq(s, k, k + Len(sub) - 1) = sub}
    IN  IF at = {} THEN 0 ELSE CHOOSE k \in at : \A l \in at : k <= l

noMatch == [ok |-> FALSE, end |-> 0, group |-> <<>>]

\* one alternative of codeBlockRegex tried at position p:
\*   fence mermaid \s*\n(.*?) fence      under (?s)
\* \s* is greedy and ends before the last newline of the white space that
\* follows the word; (.*?) is lazy and ends before the first fence.
matchFence(s, p, fence) ==
    LET open == fence \o Mermaid
        q == p + Len(open)
        rest == SubSeq(s, q, Len(s))
        w == LeadRun(rest, IsSpace)
        nls == {k \in 1..w : rest[k] = NL}
        lastNL == CHOOSE k \in nls : \A l \in nls : l <= k
        close == IndexFrom(rest, fence, lastNL + 1)
    IN  IF q - 1 > Len(s) THEN noMatch
        ELSE IF SubSeq(s, p, q - 1) # open \/ nls = {} THEN noMatch
        ELSE IF close = 0 THEN noMatch
        ELSE [ok |-> TRUE,
              end |-> q - 1 + close + Len(fence) - 1,
              group |-> SubSeq(rest, lastNL + 1, close - 1)]

\* codeBlockRegex tried at position p: the backtick alternative first
codeBlockRegex(s, p) ==
    LET b == matchFence(s, p, Backticks)
        t == matchFence(s, p, Tildes)
    IN  IF b.ok THEN [ok |-> TRUE, end |-> b.end, g1 |-> b.group, g2 |-> <<>>]
        ELSE IF t.ok
        THEN [ok |-> TRUE, end |-> t.end, g1 |-> <<>>, g2 |-> t.group]
        ELSE [ok |-> FALSE, end |-> 0, g1 |-> <<>>, g2 |-> <<>>]

\* block is a match of codeBlockRegex, so the match found in it starts at
\* its first position
extractDiagramSource(block) ==
    LET matches == codeBlockRegex(block, 1)
    IN  IF ~matches.ok THEN <<>>
        ELSE IF matches.g1 # <<>> THEN TrimSpace(matches.g1)
        ELSE IF matches.g2 # <<>> THEN TrimSpace(matches.g2)
        ELSE <<>>

\* MockRenderer.Render: RenderFunc is a function of the source; the one of
\* the model tells the flowcharts (a source with a g) from the others
Render(renderFunc, source) ==
    IF Contains(source, <<"g">>) THEN renderFunc.graph ELSE renderFunc.other

\* the function Process replaces each match by; calls are the sources the
\* renderer was called with
replaceMatchNoteAfter(renderFunc, match) ==
    LET source == extractDiagramSource(match)
        r == Render(renderFunc, source)
    IN  IF source = <<>> THEN [text |-> match, calls |-> <<>>]
        ELSE IF r.err = ErrTooComplex
        THEN [text |-> match \o <<NL>> \o tooComplexNote,
              calls |-> <<source>>]
        ELSE IF r.err # ""
        THEN [text |-> match \o <<NL, "<!-- mermaid rendering error: ",
                                   r.err, " -->">>,
              calls |-> <<source>>]
        ELSE [text |-> Backticks \o <<NL>> \o TrimSpace(r.rendered)
                           \o <<NL>> \o Backticks,
              calls |-> <<source>>]
replaceMatch(renderFunc, match) ==
    LET source == extractDiagramSource(match)
        r == Render(renderFunc, source)
    IN  IF source = <<>> THEN [text |-> match, calls |-> <<>>]
        ELSE IF r.err = ErrTooComplex
        THEN [text |-> tooComplexNote \o <<NL>> \o match,
              calls |-> <<source>>]
        ELSE IF r.err # ""
        THEN [text |-> match \o <<NL, "<!-- mermaid rendering error: ",
                                   r.err, " -->">>,
              calls |-> <<source>>]
        ELSE [text |-> Backticks \o <<NL>> \o TrimSpace(r.rendered)
                           \o <<NL>> \o Backticks,
              calls |-> <<source>>]

\* ReplaceAllStringFunc over s[p..]: the matches from left to right, none
\* overlapping another; one piece for every match and for every character
\* outside the matches
RECURSIVE replaceAllFrom(_, _, _)
replaceAllFrom(s, p, renderFunc) ==
    IF p > Len(s) THEN <<>>
    ELSE LET mt == codeBlockRegex(s, p)
         IN  IF ~mt.ok
             THEN <<[text |-> <<s[p]>>, calls |-> <<>>]>>
                      \o replaceAllFrom(s, p + 1, renderFunc)
             ELSE <<replaceMatch(renderFunc, SubSeq(s, p, mt.end))>>
                      \o replaceAllFrom(s, mt.end + 1, renderFunc)

\* the pieces put together: the text returned, the calls made
RECURSIVE textOf(_)
textOf(pieces) ==
    IF pieces = <<>> THEN <<>>
    ELSE Head(pieces).text \o textOf(Tail(pieces))
RECURSIVE callsOf(_)
callsOf(pieces) ==
    IF pieces = <<>> THEN <<>>
    ELSE Head(pieces).calls \o callsOf(Tail(pieces))

Process(renderFunc, markdown) ==
    LET pieces == replaceAllFrom(markdown, 1, renderFunc)
    IN  [text |-> textOf(pieces), calls |-> callsOf(pieces)]

----------------------------------------------------------------------------
(* SpecMermaid: Process called once on a document of up to MaxSegments     *)
(* segments, with a renderer that succeeds, finds the diagram too complex  *)
(* or fails, for the flowcharts and for the other diagrams.                *)

\* the segments of a document: a paragraph, a block of code, a flowchart
\* in a backtick block (indented), a sequence diagram in a tilde block
\* (white space after the word), a mermaid block with nothing in it
SegmentKinds == {"text", "code", "backtick", "tilde", "empty"}
SegmentText(kind) ==
    CASE kind = "text" -> <<"x">>
      [] kind = "code" -> Backticks \o <<"go", NL, "x", NL>> \o Backticks
      [] kind = "backtick" ->
            Backticks \o Mermaid \o <<NL, " ", "g", NL>> \o Backticks
      [] kind = "tilde" ->
            Tildes \o Mermaid \o <<" ", NL, NL, "h", NL>> \o Tildes
      [] OTHER -> Backticks \o Mermaid \o <<NL>> \o Backticks

\* what the renderer may answer
RenderOutcomes ==
    {[rendered |-> <<" ", "R", NL>>, err |-> ""],
     [rendered |-> <<>>, err |-> ErrTooComplex],
     [rendered |-> <<>>, err |-> "parse error"]}

InitMermaid ==
    \E n \in 0..MaxSegments :
        \E segments \in [1..n -> SegmentKinds],
           onGraph \in RenderOutcomes, onOther \in RenderOutcomes :
            /\ pp = [state |-> "new",
                     segments |-> segments,
                     markdown |-> Join([i \in 1..n |->
                                          SegmentText(segments[i])]),
                     renderFunc |-> [graph |-> onGraph, other |-> onOther],
                     Calls |-> <<>>,
                     result |-> <<>>]
            /\ common = [width |-> 100, height |-> 3]
            /\ m = newPagerModel(FALSE)
            /\ inflight = {}
            /\ last = [op |-> "new", arg |-> 0, ret |-> 0]

CallProcess ==
    /\ pp.state = "new"
    /\ pp' = [pp EXCEPT
                 !.state = "processed",
                 !.Calls = Process(pp.renderFunc, pp.markdown).calls,
                 !.result = Process(pp.renderFunc, pp.markdown).text]
    /\ last' = [op |-> "Process", arg |-> Len(pp.markdown), ret |-> 0]
    /\ UNCHANGED <<m, common, inflight>>

NextMermaid == CallProcess

SpecMermaid == InitMermaid /\ [][NextMermaid]_vars

----------------------------------------------------------------------------
(* Properties *)

hs == m.outline.headings
InRange(i) == 0 <= i /\ i < Len(hs)
SidebarKeys == m.outlineFocused /\ m.outline.visible

\* C1: the cursor stays within [0, len(headings) - 1], and is 0 when the
\* list is empty; moving it up at 0 or down at len - 1 changes nothing,
\* and on an empty list both moves change nothing.
CursorInRangeAndStopsAtEnds ==
    /\ [](0 <= m.outline.cursor
            /\ m.outline.cursor <= Max(0, Len(hs) - 1))
    /\ [][/\ (KeyUp /\ SidebarKeys /\ m.outline.cursor = 0) => m' = m
          /\ (KeyDown /\ SidebarKeys /\ m.outline.cursor >= Len(hs) - 1)
                => m' = m
          /\ ((KeyUp \/ KeyDown) /\ SidebarKeys /\ Len(hs) = 0) => m' = m
         ]_vars

\* moveCursorDown was called with the cursor on the last of several
\* headings, and the cursor is still there
CursorHeldAtLastHeading ==
    /\ last.op = "j" /\ SidebarKeys
    /\ Len(hs) >= 2
    /\ last.arg = Len(hs) - 1
    /\ m.outline.cursor = Len(hs) - 1

\* the index of the last heading whose line is <= L, 0 when there is none
NearestPreceding(L) ==
    LET upTo == {i \in 1..Len(hs) : hs[i].Line <= L}
    IN  IF upTo = {} THEN 0
        ELSE (CHOOSE i \in upTo : \A j \in upTo : j <= i) - 1

\* C2: on a non-empty list updateCurrent(L) leaves current at the index of
\* the last heading whose line is <= L, at 0 when L is before the first
\* heading; when that index is the present current nothing is changed.
UpdateCurrentPicksNearestPreceding ==
    /\ []((last.op = "updateCurrent" /\ Len(hs) > 0)
            => m.outline.current = NearestPreceding(last.arg))
    /\ [][(last'.op = "updateCurrent" /\ Len(hs) > 0
              /\ NearestPreceding(last'.arg) = m.outline.current)
            => m' = m]_vars

\* updateCurrent was called with a line after the second heading's and
\* moved current off heading 0
UpdateCurrentMovedOn ==
    /\ last.op = "updateCurrent"
    /\ Len(hs) >= 2
    /\ last.arg > hs[2].Line
    /\ m.outline.current = NearestPreceding(last.arg)
    /\ m.outline.current >= 1

\* C3: jumpToHeading with an index below 0 or at least len(headings)
\* changes nothing of the pager: headings, cursor, current, the flags and
\* the content viewport's offset are what they were.
JumpOutOfRangeChangesNothing ==
    [][(CallJumpToHeading /\ (last'.arg < 0 \/ last'.arg >= Len(hs)))
        => m' = m]_vars

\* an out-of-range jump was made on a list with headings, with the cursor
\* and current off heading 0
JumpOutOfRangeMade ==
    /\ last.op = "jumpToHeading"
    /\ Len(hs) >= 2
    /\ (last.arg < 0 \/ last.arg >= Len(hs))
    /\ m.outline.cursor >= 1
    /\ m.outline.current >= 1

Resolved(i) == hs[i + 1].RenderedLine >= 0
MaxOffset == Max(0, TotalLineCount(m.viewport) - m.viewport.Height)

\* C4: jumpToHeading with an in-range index i leaves both current and
\* cursor at i, whether the heading's rendered line is resolved or not.
JumpSetsCurrentAndCursor ==
    (last.op = "jumpToHeading" /\ InRange(last.arg))
        => (m.outline.current = last.arg /\ m.outline.cursor = last.arg)

\* a jump to a later heading whose rendered line is not resolved has put
\* current and cursor on it
JumpedToUnresolvedHeading ==
    /\ last.op = "jumpToHeading"
    /\ InRange(last.arg) /\ last.arg >= 1
    /\ ~Resolved(last.arg)
    /\ TotalLineCount(m.viewport) > 0
    /\ m.outline.cursor = last.arg

\* C5: jumpToHeading with an in-range index whose heading has the resolved
\* rendered line r leaves the content viewport's offset at
\* min(max(0, r - scrollOff), max(0, total - height)); after a jump to any
\* in-range index the offset lies in [0, max(0, total - height)].
JumpOffsetIsClampedScrollOff ==
    (last.op = "jumpToHeading" /\ InRange(last.arg))
        => /\ 0 <= m.viewport.YOffset /\ m.viewport.YOffset <= MaxOffset
           /\ Resolved(last.arg)
                => m.viewport.YOffset =
                       Min(Max(0, hs[last.arg + 1].RenderedLine - scrollOff),
                           MaxOffset)

\* a jump to a resolved heading more than scrollOff lines down, in a
\* viewport that cannot scroll that far: the offset is the largest one,
\* and not 0
JumpClampedAtBottom ==
    /\ last.op = "jumpToHeading"
    /\ InRange(last.arg) /\ Resolved(last.arg)
    /\ hs[last.arg + 1].RenderedLine - scrollOff > MaxOffset
    /\ MaxOffset >= 1
    /\ m.viewport.YOffset = MaxOffset

\* C6: jumpToHeading(i) for a heading with a resolved rendered line,
\* followed at once by updateCurrentHeading, leaves current at i.
JumpThenUpdateCurrentRoundTrip ==
    [][(last.op = "jumpToHeading" /\ InRange(last.arg)
           /\ Resolved(last.arg) /\ CallUpdateCurrentHeading)
        => m'.outline.current = last.arg]_vars

StrictlyIncreasing(list) ==
    \A i \in 1..(Len(list) - 1) : list[i].Line < list[i + 1].Line

\* C7: the headings parseHeadings returns are strictly increasing in line,
\* and so is the list the outline stores, in every state.
HeadingsStrictlyIncreasing ==
    /\ StrictlyIncreasing(parseHeadings(m.currentDocument.Body))
    /\ StrictlyIncreasing(hs)

\* the outline was rebuilt from a document with three headings
ThreeHeadingsStored ==
    /\ last.op = "setContent"
    /\ Len(hs) = 3
    /\ hs[1].Line < hs[3].Line

\* a line that opens or closes a fenced block, of either style
FenceLine(line) ==
    \/ HasPrefix(TrimSpace(line), Backticks)
    \/ HasPrefix(TrimSpace(line), Tildes)
\* line i (from 1) lies inside a fenced block: an odd number of fence
\* lines comes before it
InsideFence(lines, i) ==
    Cardinality({j \in 1..(i - 1) : FenceLine(lines[j])}) % 2 = 1
LooksLikeHeading(line) == headingRegex(line) # <<>> /\ ~FenceLine(line)
bodyLines == Split(m.currentDocument.Body)

\* C8: a heading-looking line inside a fenced block is never among the
\* headings parseHeadings returns, whichever fence style opened the block
\* and whichever closes it; a document with no heading-looking line
\* outside its fenced blocks yields no headings.
NoHeadingFromInsideFence ==
    LET parsed == parseHeadings(m.currentDocument.Body)
    IN  /\ \A k \in 1..Len(parsed) :
               ~InsideFence(bodyLines, parsed[k].Line + 1)
        /\ (\A i \in 1..Len(bodyLines) :
               LooksLikeHeading(bodyLines[i]) => InsideFence(bodyLines, i))
               => parsed = <<>>
        /\ last.op = "setContent"
               => [k \in 1..Len(hs) |-> hs[k].Line]
                      = [k \in 1..Len(parsed) |-> parsed[k].Line]

\* the outline was built from a document whose only heading-looking line
\* sits in a block opened with tildes and closed with backticks
HeadingInMixedFenceSkipped ==
    /\ last.op = "setContent"
    /\ Len(bodyLines) = 3
    /\ HasPrefix(TrimSpace(bodyLines[1]), Tildes)
    /\ LooksLikeHeading(bodyLines[2])
    /\ HasPrefix(TrimSpace(bodyLines[3]), Backticks)
    /\ hs = <<>>

\* C9: nextHeadingIndex returns current + 1 when current < len - 1 and -1
\* otherwise, prevHeadingIndex current - 1 when current > 0 and -1
\* otherwise (both -1 on an empty list); neither changes any state.
NextPrevHeadingIndexValues ==
    /\ [](/\ last.op = "nextHeadingIndex"
               => last.ret = IF m.outline.current < Len(hs) - 1
                             THEN m.outline.current + 1 ELSE -1
          /\ last.op = "prevHeadingIndex"
               => last.ret = IF m.outline.current > 0
                             THEN m.outline.current - 1 ELSE -1
          /\ (last.op \in {"nextHeadingIndex", "prevHeadingIndex"}
                 /\ Len(hs) = 0) => last.ret = -1)
    /\ [][last'.op \in {"nextHeadingIndex", "prevHeadingIndex"}
            => m' = m]_vars

\* nextHeadingIndex was asked on the last of several headings and
\* answered -1
NextAtLastHeadingIsSentinel ==
    /\ last.op = "nextHeadingIndex"
    /\ Len(hs) >= 2
    /\ m.outline.current = Len(hs) - 1
    /\ last.ret = -1

\* the heading the scroll position selects now
ScrollDerivedCurrent == scanCurrent(hs, 1, rawLineOf(m), 0)

\* C10: while the sidebar has the focus no scrolling changes current: over
\* a turn that begins and ends with the sidebar focused, current changes
\* only by a jump ("enter", "]", "[") or a rebuild (a delivered render).
FocusedCurrentOnlyByJumpOrRebuild ==
    [][(m.outlineFocused /\ m'.outlineFocused
           /\ m'.outline.current # m.outline.current)
        => (KeyEnter \/ KeyNextHeading \/ KeyPrevHeading \/ ContentRendered)
      ]_vars

\* a key scrolled the content while the sidebar, shown and visible, had
\* the focus, and current is not the heading the new offset selects
ScrolledWhileFocused ==
    /\ last.op = "key" /\ last.arg = 1
    /\ m.showOutline /\ m.outline.visible /\ m.outlineFocused
    /\ Len(hs) >= 2
    /\ TotalLineCount(m.viewport) > 0
    /\ ScrollDerivedCurrent # m.outline.current

\* a tab that toggles the focus: the sidebar is shown and visible
TabToggles == KeyTab /\ m.showOutline /\ m.outline.visible

\* C11: a tab that moves the focus into the sidebar leaves cursor equal to
\* current, and current as it was; a tab that moves the focus out leaves
\* the cursor as it was, and current at the heading the scroll offset
\* selects (as it was when there is no heading or no rendered line).
TabSyncsCursorOnFocusIn ==
    [][/\ (TabToggles /\ ~m.outlineFocused)
            => /\ m'.outlineFocused /\ m'.outline.focused
               /\ m'.outline.current = m.outline.current
               /\ m'.outline.cursor = m.outline.current
       /\ (TabToggles /\ m.outlineFocused)
            => /\ ~m'.outlineFocused /\ ~m'.outline.focused
               /\ m'.outline.cursor = m.outline.cursor
               /\ m'.outline.current =
                      IF Len(hs) = 0 \/ TotalLineCount(m.viewport) = 0
                      THEN m.outline.current
                      ELSE NearestPreceding(rawLineOf(m))
      ]_vars

\* a tab has moved the focus out of the sidebar, and current is no longer
\* what it was before the tab
TabOutMovedCurrent ==
    /\ last.op = "tab"
    /\ m.showOutline /\ m.outline.visible /\ ~m.outlineFocused
    /\ Len(hs) >= 2
    /\ m.outline.current # last.arg

\* C11 as stated: a tab into the sidebar sets cursor to current, a tab out
\* of it leaves cursor and current as they were.
TabOutLeavesCursorAndCurrent ==
    [][/\ (TabToggles /\ ~m.outlineFocused)
            => m'.outline.cursor = m'.outline.current
       /\ (TabToggles /\ m.outlineFocused)
            => /\ m'.outline.cursor = m.outline.cursor
               /\ m'.outline.current = m.outline.current
      ]_vars

\* C12: setContent(markdown) leaves the outline with exactly the headings
\* of markdown, one for each heading line outside the fenced blocks, all
\* unresolved, and with cursor and current at 0, whatever the cursor, the
\* current heading and the list were before.
SetContentReplacesListAndResets ==
    last.op = "setContent"
        => /\ hs = unresolvedHeadings(parseHeadings(m.currentDocument.Body))
           /\ {hs[k].Line : k \in 1..Len(hs)}
                  = {i - 1 : i \in {j \in 1..Len(bodyLines) :
                                       /\ LooksLikeHeading(bodyLines[j])
                                       /\ ~InsideFence(bodyLines, j)}}
           /\ m.outline.cursor = 0
           /\ m.outline.current = 0

\* setContent was called with the cursor off heading 0 of a list of three
\* headings, and left a list of one heading
SetContentShrankList ==
    /\ last.op = "setContent"
    /\ last.arg >= 1
    /\ last.ret = 3
    /\ Len(hs) = 1
    /\ m.outline.cursor = 0

\* C13: in every state of the UI loop, whatever keys, renders, reloads and
\* resizes led to it, current is within [0, len(headings) - 1], and is 0
\* when the list is empty.
CurrentInRange ==
    /\ 0 <= m.outline.current
    /\ m.outline.current <= Max(0, Len(hs) - 1)

\* a key scrolled the content and the scroll position selected the last
\* of several headings
ScrollSelectedLastHeading ==
    /\ last.op = "key" /\ last.arg = 1
    /\ m.showOutline /\ m.outline.visible /\ ~m.outlineFocused
    /\ Len(hs) >= 2
    /\ m.outline.current = Len(hs) - 1

\* the mapping was the last call, with a rendered text that is not empty
Mapped == last.op = "mapHeadingsToRenderedLines" /\ last.arg > 0
renderedLines == Split(RenderedText(m.currentDocument.Body, last.ret))
\* rendered line j (from 0) shows the text of heading i (from 1)
Shows(j, i) ==
    Contains(ToLower(stripANSI(renderedLines[j + 1])), ToLower(hs[i].Text))
\* where the search for heading i starts: after the match of the nearest
\* resolved heading before it, at the top when there is none
SearchStart(i) ==
    LET before == {k \in 1..(i - 1) : hs[k].RenderedLine >= 0}
    IN  IF before = {} THEN 0
        ELSE hs[CHOOSE k \in before : \A l \in before : l <= k].RenderedLine
                 + 1

\* C14: after a mapping on a rendered text that is not empty the resolved
\* rendered lines increase strictly in heading order, and each is the
\* first line showing the heading's text at or after the line that
\* follows the previous match (the top for the first heading), also when
\* the text occurs on earlier lines or several times.
MappingIsNonCrossing ==
    Mapped =>
        /\ \A i, j \in 1..Len(hs) :
               (i < j /\ hs[i].RenderedLine >= 0 /\ hs[j].RenderedLine >= 0)
                   => hs[i].RenderedLine < hs[j].RenderedLine
        /\ \A i \in 1..Len(hs) :
               hs[i].RenderedLine >= 0
                   => /\ hs[i].RenderedLine >= SearchStart(i)
                      /\ hs[i].RenderedLine < Len(renderedLines)
                      /\ Shows(hs[i].RenderedLine, i)
                      /\ \A j \in SearchStart(i)..(hs[i].RenderedLine - 1) :
                             ~Shows(j, i)

\* a heading was resolved to the second line that shows its text, the
\* first one lying before the previous heading's match
MappedPastEarlierOccurrence ==
    /\ Mapped
    /\ \E i \in 2..Len(hs) :
           /\ hs[i - 1].RenderedLine >= 0
           /\ hs[i].RenderedLine > hs[i - 1].RenderedLine
           /\ \E j \in 0..(hs[i - 1].RenderedLine - 1) : Shows(j, i)

\* no rendered line from line start on shows the text of heading i
NotShownFrom(start, i) ==
    \A j \in start..(Len(renderedLines) - 1) : ~Shows(j, i)

\* C15: after a mapping on a rendered text that is not empty, a heading is
\* unresolved, with the value -1, exactly when no line from its starting
\* line on shows its text; and the heading after an unresolved one was
\* searched from that same starting line: it is resolved to the first
\* line from there on that shows its text, and unresolved when none does.
UnresolvedKeepsSearchPosition ==
    Mapped =>
        \A i \in 1..Len(hs) :
            LET start == SearchStart(i)
            IN  /\ hs[i].RenderedLine >= -1
                /\ hs[i].RenderedLine = -1 <=> NotShownFrom(start, i)
                /\ (hs[i].RenderedLine = -1 /\ i < Len(hs))
                       => IF NotShownFrom(start, i + 1)
                          THEN hs[i + 1].RenderedLine = -1
                          ELSE /\ hs[i + 1].RenderedLine >= start
                               /\ Shows(hs[i + 1].RenderedLine, i + 1)
                               /\ \A j \in start..(hs[i + 1].RenderedLine - 1) :
                                      ~Shows(j, i + 1)

\* a heading whose text only occurs before its starting line is
\* unresolved, and the heading after it is resolved to that very
\* starting line
NextFoundAtSameStart ==
    /\ Mapped
    /\ \E i \in 2..(Len(hs) - 1) :
           /\ hs[i - 1].RenderedLine >= 0
           /\ hs[i].RenderedLine = -1
           /\ \E j \in 0..(SearchStart(i) - 1) : Shows(j, i)
           /\ hs[i + 1].RenderedLine = SearchStart(i)

\* C16: a mapping called with the empty rendered text changes nothing:
\* every heading keeps its rendered line, resolved or not, and the rest of
\* the outline and of the pager is as it was.
MappingEmptyTextIsNoOp ==
    [][(last'.op = "mapHeadingsToRenderedLines" /\ last'.arg = 0)
        => m' = m]_vars

\* the mapping was called with the empty text on a list with a resolved
\* heading, which is still resolved
EmptyMappingKeptResolvedLine ==
    /\ last.op = "mapHeadingsToRenderedLines"
    /\ last.arg = 0
    /\ Len(hs) >= 2
    /\ hs[2].RenderedLine >= 1

MappedFromScratch(msg) ==
    LET fresh == unresolvedHeadings(parseHeadings(m.currentDocument.Body))
    IN  IF msg = <<>> THEN fresh ELSE mapLoop(fresh, 1, cleanLines(Split(msg)), 0)

\* C19: every delivered render result is applied, whatever was delivered
\* before it and whatever is still in flight: after the turn the content
\* viewport holds the lines of that result and, for a markdown file, the
\* headings are those of the document mapped on that result, with nothing
\* left of the content or the mapping of an earlier result.
LastRenderResultWins ==
    [][last'.op = "contentRendered"
        => \E msg \in inflight \ inflight' :
               /\ m'.viewport.lines = Split(msg)
               /\ isMarkdownFile(m)
                      => m'.outline.headings = MappedFromScratch(msg)
      ]_vars

\* the result of the document's present body was delivered after another
\* result and replaced its content: the content and the resolved lines
\* are those of the later result
LaterResultReplacedEarlier ==
    /\ last.op = "contentRendered" /\ last.arg = 1
    /\ isMarkdownFile(m)
    /\ m.viewport.lines
           = Split(glamourRender(m, common, m.currentDocument.Body))
    /\ Len(hs) >= 2
    /\ hs = MappedFromScratch(Join(m.viewport.lines))
    /\ hs[2].RenderedLine >= 1

\* the render result handled last is that of the body the pager holds
RenderOfBodyHandled ==
    /\ last.op = "contentRendered"
    /\ m.viewport.lines
           = Split(glamourRender(m, common, m.currentDocument.Body))

\* heading h of the outline is a heading of the body the pager holds
HeadingOfBody(h) ==
    \E k \in 1..Len(parseHeadings(m.currentDocument.Body)) :
        LET p == parseHeadings(m.currentDocument.Body)[k]
        IN  p.Line = h.Line /\ p.Text = h.Text /\ p.Level = h.Level

\* C20: once the render result of the body the pager holds has been
\* handled, after a reload or after another file was opened, markdown or
\* not, every heading of the outline is a heading of that body: none of
\* the document shown before remains.
NoHeadingOfPreviousDocument ==
    RenderOfBodyHandled => \A k \in 1..Len(hs) : HeadingOfBody(hs[k])

\* the calls of the outline core that navigate or synchronise
CoreCalls ==
    {"moveCursorUp", "moveCursorDown", "updateCurrent", "nextHeadingIndex",
     "prevHeadingIndex", "jumpToHeading", "updateCurrentHeading"}
\* no line of the body looks like a heading outside a fenced block
NoHeadingLine ==
    \A i \in 1..Len(bodyLines) :
        LooksLikeHeading(bodyLines[i]) => InsideFence(bodyLines, i)

\* C21: the empty document and a document without headings yield the
\* empty list, and on the empty list moveCursorUp, moveCursorDown,
\* updateCurrent, nextHeadingIndex, prevHeadingIndex, jumpToHeading (at
\* the cursor and at any other index) and updateCurrentHeading all
\* complete and leave the whole state as it was.
EmptyListOperationsAreNoOps ==
    /\ []((m.currentDocument.Body = <<>> \/ NoHeadingLine)
            => parseHeadings(m.currentDocument.Body) = <<>>)
    /\ []((last.op = "setContent" /\ NoHeadingLine) => hs = <<>>)
    /\ []((last.op \in {"nextHeadingIndex", "prevHeadingIndex"}
              /\ Len(hs) = 0) => last.ret = -1)
    /\ [][(last'.op \in CoreCalls /\ Len(hs) = 0) => m' = m]_vars

\* jumpToHeading was called at the cursor on the empty list of the empty
\* document, whose content is shown
EmptyDocumentJumpAtCursor ==
    /\ last.op = "jumpToHeading"
    /\ m.currentDocument.Body = <<>>
    /\ hs = <<>>
    /\ last.arg = m.outline.cursor
    /\ TotalLineCount(m.viewport) > 0

\* C22: after setSize(w, h) the sidebar is visible exactly when
\* showOutline is on, the file is a markdown file and w >= 80; when it is
\* visible the sidebar has the outline width and the content viewport the
\* rest of w, when it is not the content viewport has all of w.
SetSizeVisibleIffShownMarkdownWide ==
    last.op = "setSize"
        => LET w == common.width
           IN  /\ m.outline.visible
                      <=> (m.showOutline /\ isMarkdownFile(m) /\ w >= 80)
               /\ m.outline.visible
                      => /\ m.outline.width = calculateOutlineWidth(w)
                         /\ m.viewport.Width = w - calculateOutlineWidth(w)
               /\ ~m.outline.visible => m.viewport.Width = w

\* the pager of a markdown file with the outline on was sized to a
\* terminal of exactly 80 columns: the sidebar is visible, 20 wide
SetSizeAtMinimumWidth ==
    /\ last.op = "setSize"
    /\ common.width = 80
    /\ m.showOutline /\ isMarkdownFile(m)
    /\ m.outline.visible
    /\ m.outline.width = 20
    /\ m.viewport.Width = 60

\* C23: calculateOutlineWidth(w) is 0 for every w < 80 and otherwise
\* floor(w * 25 / 100) clamped to [20, 40]; so for every w >= 80 it lies
\* in [20, 40] and is less than w.
OutlineWidthClampedQuarter ==
    last.op = "calculateOutlineWidth"
        => LET w == last.arg
               r == last.ret
               quarter == CHOOSE q \in 0..w :
                              100 * q <= 25 * w /\ 25 * w < 100 * (q + 1)
           IN  /\ w < 80 => r = 0
               /\ w >= 80
                     => /\ r = IF quarter < 20 THEN 20
                               ELSE IF quarter > 40 THEN 40 ELSE quarter
                        /\ 20 <= r /\ r <= 40
                        /\ r < w

\* the width was computed for a terminal whose quarter is more than 40
\* columns, and is 40
OutlineWidthClampedAtMax ==
    /\ last.op = "calculateOutlineWidth"
    /\ last.arg * 25 > 41 * 100
    /\ last.ret = 40

\* C24: on a markdown file every "o" flips showOutline, so that a second
\* "o" right after the first restores it, and an "o" that switches the
\* outline off leaves the pager's focus flag off; on another file "o"
\* changes nothing of the outline, of showOutline and of the focus flag.
ToggleOutlineFlipsForMarkdownOnly ==
    [][/\ (last'.op = "o" /\ isMarkdownFile(m))
            => /\ m'.showOutline = ~m.showOutline
               /\ ~m'.showOutline => ~m'.outlineFocused
       /\ (last.op = "o" /\ last'.op = "o" /\ isMarkdownFile(m))
            => (m'.showOutline <=> last.arg = 1)
       /\ (last'.op = "o" /\ ~isMarkdownFile(m))
            => /\ m'.outline = m.outline
               /\ m'.showOutline = m.showOutline
               /\ m'.outlineFocused = m.outlineFocused
      ]_vars

\* "o" has switched the outline of a markdown file off while the sidebar
\* had the focus, right after an "o" that had switched it on
ToggledOffAfterOn ==
    /\ last.op = "o" /\ last.arg = 1
    /\ isMarkdownFile(m)
    /\ ~m.showOutline /\ ~m.outlineFocused
    /\ m.outline.focused

\* C25: a tab pressed while the sidebar is shown and visible flips the
\* focus flag, so that a second tab right after one that moved the focus
\* into the sidebar returns it to the content; a tab pressed while the
\* sidebar is not shown or not visible leaves the focus flags, cursor and
\* current as they were.
TabTogglesOnlyWhileVisible ==
    [][/\ (last'.op = "tab" /\ m.showOutline /\ m.outline.visible)
            => /\ m'.outlineFocused = ~m.outlineFocused
               /\ m'.outline.focused = m'.outlineFocused
       /\ (last'.op = "tab" /\ ~(m.showOutline /\ m.outline.visible))
            => /\ m'.outlineFocused = m.outlineFocused
               /\ m'.outline.focused = m.outline.focused
               /\ m'.outline.cursor = m.outline.cursor
               /\ m'.outline.current = m.outline.current
       /\ (last.op = "tab" /\ last'.op = "tab" /\ m.outlineFocused
              /\ m.showOutline /\ m.outline.visible)
            => ~m'.outlineFocused /\ ~m'.outline.focused
      ]_vars

\* a tab was pressed while the sidebar, which had the focus, was hidden by
\* a narrow terminal: the focus flag is as it was
TabOnHiddenSidebar ==
    /\ last.op = "tab"
    /\ m.showOutline /\ ~m.outline.visible
    /\ m.outlineFocused
    /\ Len(hs) >= 2

\* character k of a line belongs to an escape sequence ESC [ ... m
InEscape(line, k) ==
    \E a \in 1..k, b \in k..Len(line) :
        /\ b >= a + 2
        /\ line[a] = ESC /\ line[a + 1] = "[" /\ line[b] = "m"
        /\ \A c \in (a + 2)..(b - 1) : line[c] # "m"
\* what a terminal shows of a line: its characters outside the escape
\* sequences, in their order
VisibleText(line) ==
    LET shown == {k \in 1..Len(line) : ~InEscape(line, k)}
    IN  [p \in 1..Cardinality(shown) |->
            line[CHOOSE k \in shown :
                     Cardinality({q \in shown : q <= k}) = p]]
\* the same letter, in either case
SameLetter(c, d) ==
    \/ c = d
    \/ \E l \in DOMAIN Upper : {c, d} = {l, Upper[l]}
\* rendered line j (from 0) visibly shows the text of heading i, in any
\* mix of cases
VisiblyShows(j, i) ==
    LET v == VisibleText(renderedLines[j + 1])
        t == hs[i].Text
    IN  \E at \in 0..(Len(v) - Len(t)) :
            \A k \in 1..Len(t) : SameLetter(v[at + k], t[k])

\* C26: after a mapping on a rendered text that is not empty, a heading
\* whose text is visible, in whatever case and between whatever styling
\* escape sequences, on a line at or after its starting line is resolved,
\* to the first such line.
StyledOrRecasedTextIsFound ==
    Mapped =>
        \A i \in 1..Len(hs) :
            LET visible == {j \in SearchStart(i)..(Len(renderedLines) - 1) :
                               VisiblyShows(j, i)}
            IN  visible # {}
                    => /\ hs[i].RenderedLine >= 0
                       /\ hs[i].RenderedLine \in visible
                       /\ \A j \in visible : hs[i].RenderedLine <= j

\* a heading written in lower case was resolved to a line that shows it
\* in capitals inside a styling sequence, and differs from the heading
\* text as a string
ResolvedOnStyledCapitals ==
    /\ Mapped
    /\ \E i \in 1..Len(hs) :
           /\ hs[i].RenderedLine >= 1
           /\ \E k \in 1..Len(renderedLines[hs[i].RenderedLine + 1]) :
                  renderedLines[hs[i].RenderedLine + 1][k] = ESC
           /\ ~Contains(renderedLines[hs[i].RenderedLine + 1], hs[i].Text)

IsMermaidSegment(kind) == kind \in {"backtick", "tilde", "empty"}
\* the diagram of a mermaid segment
SegmentSource(kind) ==
    CASE kind = "backtick" -> <<"g">>
      [] kind = "tilde" -> <<"h">>
      [] OTHER -> <<>>
\* what the renderer answers for the diagram of a segment
SegmentOutcome(kind) ==
    IF kind = "backtick" THEN pp.renderFunc.graph ELSE pp.renderFunc.other
\* what a rendered segment is to become
RenderedSegment(kind) ==
    LET block == SegmentText(kind)
        r == SegmentOutcome(kind)
    IN  IF r.err = "" THEN Backticks \o <<NL, "R", NL>> \o Backticks
        ELSE IF r.err = ErrTooComplex
        THEN tooComplexNote \o <<NL>> \o block
        ELSE block \o <<NL, "<!-- mermaid rendering error: ", r.err, " -->">>
\* the diagrams of the segments whose kind is among kinds, in order
RECURSIVE SourcesOf(_, _)
SourcesOf(segments, kinds) ==
    IF segments = <<>> THEN <<>>
    ELSE (IF Head(segments) \in kinds
          THEN <<SegmentSource(Head(segments))>> ELSE <<>>)
             \o SourcesOf(Tail(segments), kinds)
\* the document with the segments among kinds rendered, the others kept
ResultRendering(kinds) ==
    Join([i \in 1..Len(pp.segments) |->
             IF pp.segments[i] \in kinds
             THEN RenderedSegment(pp.segments[i])
             ELSE SegmentText(pp.segments[i])])

\* C27: Process calls the renderer once for each mermaid block that has a
\* diagram in it, in order, with the diagram trimmed, and not at all for a
\* mermaid block with nothing in it, which is kept as it is; the text
\* outside the mermaid blocks is kept; a block whose rendering succeeds
\* becomes the trimmed rendering in a plain fence, on ErrTooComplex the
\* block is kept with the note before it, on another error the block is
\* kept with the error comment after it.
ProcessRendersEachDiagramOnce ==
    pp.state = "processed"
        => /\ pp.Calls = SourcesOf(pp.segments, {"backtick", "tilde"})
           /\ pp.result = ResultRendering({"backtick", "tilde"})

\* a document with an empty mermaid block between two diagrams was
\* processed: one too complex, one that failed
ProcessedAroundEmptyBlock ==
    /\ pp.state = "processed"
    /\ pp.segments = <<"backtick", "empty", "tilde">>
    /\ pp.renderFunc.graph.err = ErrTooComplex
    /\ pp.renderFunc.other.err = "parse error"
    /\ Len(pp.Calls) = 2

\* C27 as stated: the renderer is called once for every mermaid block,
\* the empty ones included.
ProcessRendersEveryBlockOnce ==
    pp.state = "processed"
        => /\ Len(pp.Calls) =
                  Len(SourcesOf(pp.segments, {"backtick", "tilde", "empty"}))
           /\ pp.result = ResultRendering({"backtick", "tilde"})

\* a heading key pressed with the outline on and a list that is not empty
HeadingKey(key) == last'.op = key /\ m.showOutline /\ Len(hs) > 0
\* current, cursor and the scroll offset are left as they were
SelectionAndOffsetKept ==
    /\ m'.outline.current = m.outline.current
    /\ m'.outline.cursor = m.outline.cursor
    /\ m'.viewport.YOffset = m.viewport.YOffset

\* C28: with the outline on and a list that is not empty, "]" pressed
\* before the last heading leaves current one further at the end of the
\* turn and "[" pressed after the first heading one back, in every state;
\* "]" on the last heading and "[" on the first change neither current,
\* cursor nor the scroll offset.
HeadingKeysStepCurrent ==
    [][/\ (HeadingKey("]") /\ m.outline.current < Len(hs) - 1)
            => m'.outline.current = m.outline.current + 1
       /\ (HeadingKey("[") /\ m.outline.current > 0)
            => m'.outline.current = m.outline.current - 1
       /\ (HeadingKey("]") /\ m.outline.current >= Len(hs) - 1)
            => SelectionAndOffsetKept
       /\ (HeadingKey("[") /\ m.outline.current <= 0)
            => SelectionAndOffsetKept
      ]_vars

\* the offset a jump to the heading at index i (from 0) is to leave
JumpOffset(i) ==
    LET h == hs[i + 1]
        total == TotalLineCount(m.viewport)
        target == IF h.RenderedLine >= 0 THEN h.RenderedLine
                  ELSE (h.Line * total) \div Len(bodyLines)
    IN  Min(Max(0, target - scrollOff), MaxOffset)

\* C29: "enter" pressed while the sidebar has the focus and is visible
\* jumps to the heading at the cursor: at the end of the turn the cursor
\* is where it was, current equals it, and the scroll offset is the one
\* of a jump to that heading; "enter" pressed while the sidebar has no
\* focus or is not visible moves neither the scroll offset nor the
\* cursor.
EnterJumpsToCursorOnlyWhenFocused ==
    [][/\ (last'.op = "enter" /\ m.outlineFocused /\ m.outline.visible)
            => /\ m'.outline.cursor = m.outline.cursor
               /\ m'.outline.current = m.outline.cursor
               /\ Len(hs) > 0
                     => m'.viewport.YOffset = JumpOffset(m.outline.cursor)
       /\ (last'.op = "enter" /\ ~(m.outlineFocused /\ m.outline.visible))
            => /\ m'.viewport.YOffset = m.viewport.YOffset
               /\ m'.outline.cursor = m.outline.cursor
               /\ m'.outline.headings = m.outline.headings
      ]_vars

\* "enter" on the focused sidebar has moved current to a later heading,
\* the one at the cursor, and scrolled the content
EnterMovedCurrentToCursor ==
    /\ last.op = "enter"
    /\ m.outlineFocused /\ m.outline.visible
    /\ m.outline.cursor >= 1
    /\ m.outline.current = m.outline.cursor
    /\ last.arg # m.outline.current
    /\ m.viewport.YOffset >= 1

\* C30: "j" and "k" pressed while the sidebar has the focus and is
\* visible move the cursor, by one or not at all, and nothing else of the
\* selection: the content viewport with its scroll offset, current, the
\* headings and the flags are as they were; pressed while the sidebar has
\* no focus or is not visible they leave the cursor where it was.
CursorKeysMoveOnlyCursor ==
    [][/\ (last'.op \in {"j", "k"} /\ SidebarKeys)
            => /\ m'.viewport = m.viewport
               /\ m'.outline.current = m.outline.current
               /\ m'.outline.headings = m.outline.headings
               /\ m'.outlineFocused /\ m'.outline.visible
               /\ m'.showOutline = m.showOutline
               /\ m'.outline.cursor \in
                      {m.outline.cursor,
                       m.outline.cursor + (IF last'.op = "j" THEN 1 ELSE -1)}
       /\ (last'.op \in {"j", "k"} /\ ~SidebarKeys)
            => m'.outline.cursor = m.outline.cursor
      ]_vars

\* "j" on the focused sidebar has moved the cursor off the current
\* heading, over a content that is scrolled
CursorMovedOffCurrent ==
    /\ last.op = "j" /\ SidebarKeys
    /\ m.outline.cursor = last.arg + 1
    /\ m.outline.cursor # m.outline.current
    /\ m.viewport.YOffset >= 1
    /\ ~AtBottom(m.viewport)

\* the sidebar draws a line for the current heading / for the cursor
ViewShowsCurrent ==
    \E k \in 1..Len(outlineView(m.outline)) :
        outlineView(m.outline)[k].prefix = ">"
ViewShowsCursor ==
    \E k \in 1..Len(outlineView(m.outline)) :
        outlineView(m.outline)[k].style = "cursor"

\* C31: whenever the sidebar is visible over a list that is not empty, the
\* current heading is among the heading lines the sidebar view draws, and
\* while the sidebar has the focus so is the heading at the cursor, also
\* when the list is longer than the rows of the sidebar.
SelectedHeadingIsDrawn ==
    (m.outline.visible /\ Len(hs) > 0)
        => /\ ViewShowsCurrent
           /\ m.outline.focused => ViewShowsCursor

\* the style of a fence line: the marker its trimmed text starts with
FenceStyle(line) ==
    IF HasPrefix(TrimSpace(line), Backticks) THEN Backticks ELSE Tildes
\* the fence lines before line i (from 1)
FencesBefore(lines, i) == {j \in 1..(i - 1) : FenceLine(lines[j])}
\* line i follows a block that one style opened and the other closed
AfterMismatchedClose(lines, i) ==
    \E j \in FencesBefore(lines, i), k \in FencesBefore(lines, i) :
        /\ j < k
        /\ FenceStyle(lines[j]) # FenceStyle(lines[k])
        /\ Cardinality({l \in FencesBefore(lines, i) : l < j}) % 2 = 0
        /\ \A l \in FencesBefore(lines, i) : l <= j \/ l >= k
        /\ \A l \in FencesBefore(lines, i) : l <= k

\* C32: the inside-fence flag does not tell the fence styles apart: a
\* fence line of either style closes the block a fence line of the other
\* style opened, so every heading line with an even number of fence lines
\* before it is extracted, a heading line that follows a block closed by
\* the other style included.
MismatchedFenceClosesBlock ==
    LET parsed == parseHeadings(m.currentDocument.Body)
    IN  /\ \A i \in 1..Len(bodyLines) :
               (LooksLikeHeading(bodyLines[i]) /\ ~InsideFence(bodyLines, i))
                   => \E k \in 1..Len(parsed) : parsed[k].Line = i - 1
        /\ \A i \in 1..Len(bodyLines) :
               (LooksLikeHeading(bodyLines[i])
                    /\ AfterMismatchedClose(bodyLines, i))
                   => \E k \in 1..Len(parsed) : parsed[k].Line = i - 1
        /\ last.op = "setContent"
               => [k \in 1..Len(hs) |-> hs[k].Line]
                      = [k \in 1..Len(parsed) |-> parsed[k].Line]

\* the outline was built from a document whose heading line follows a
\* block opened with backticks and closed with tildes, and holds it
HeadingAfterMismatchedCloseStored ==
    /\ last.op = "setContent"
    /\ Len(bodyLines) = 3
    /\ bodyLines[1] = Backticks /\ bodyLines[2] = Tildes
    /\ LooksLikeHeading(bodyLines[3])
    /\ AfterMismatchedClose(bodyLines, 3)
    /\ Len(hs) = 1 /\ hs[1].Line = 2

\* a line that consists solely of a fence marker, three or more backquotes
\* or three or more tildes, with nothing or a language tag after it
MarkerAndTag(t, c) ==
    /\ LeadRun(t, {c}) >= 3
    /\ \A k \in (LeadRun(t, {c}) + 1)..Len(t) : t[k] \notin IsSpace \cup {BQ, "~"}
SoleFenceLine(line) ==
    MarkerAndTag(TrimSpace(line), BQ) \/ MarkerAndTag(TrimSpace(line), "~")
\* the flag before line i (from 1) when only such lines toggle it
InsideSoleFences(lines, i) ==
    Cardinality({j \in 1..(i - 1) : SoleFenceLine(lines[j])}) % 2 = 1

\* C33: the inside-fence flag is toggled by the lines that consist solely
\* of a fence marker with an optional language tag and by no other line,
\* so the lines extracted are the heading lines with an even number of
\* such fence lines before them; a line that begins with three backquotes
\* and goes on with further content toggles nothing; no fence line is
\* extracted as a heading.
OnlySoleFenceLinesToggle ==
    LET parsed == parseHeadings(m.currentDocument.Body)
    IN  /\ {parsed[k].Line + 1 : k \in 1..Len(parsed)}
               = {i \in 1..Len(bodyLines) :
                     /\ headingRegex(bodyLines[i]) # <<>>
                     /\ ~SoleFenceLine(bodyLines[i])
                     /\ ~InsideSoleFences(bodyLines, i)}
        /\ \A k \in 1..Len(parsed) : ~FenceLine(bodyLines[parsed[k].Line + 1])
        /\ last.op = "setContent"
               => [k \in 1..Len(hs) |-> hs[k].Line]
                      = [k \in 1..Len(parsed) |-> parsed[k].Line]

\* the parts of a line the heading pattern looks at
LeadingHashes(line) == LeadRun(line, IsHash)
AfterHashes(line) == SubSeq(line, LeadingHashes(line) + 1, Len(line))
\* what comes before the run of hashes that ends the line
BeforeClosing(line) ==
    SubSeq(AfterHashes(line), 1,
           Len(AfterHashes(line)) - TrailRun(AfterHashes(line), IsHash))
\* the line ends with a run of hashes that white space sets off from a text
ClosingSetOff(line) ==
    /\ TrailRun(AfterHashes(line), IsHash) >= 1
    /\ TrimSpace(BeforeClosing(line)) # <<>>
    /\ BeforeClosing(line)[Len(BeforeClosing(line))] \in IsSpace
\* the headings extracted, as a set of <<line (from 1), level, text>>
Extracted ==
    {<<hs[k].Line + 1, hs[k].Level, hs[k].Text>> : k \in 1..Len(hs)}
\* a line (from 1) of the body that no fenced block hides
OutsideFence(i) == ~FenceLine(bodyLines[i]) /\ ~InsideFence(bodyLines, i)

\* C34: a line outside a fence is extracted exactly when it begins with 1
\* to 6 hashes followed by white space and then a text; its level is the
\* number of leading hashes, in 1..6; its text is the rest of the line
\* without a run of hashes at its end, whether or not white space
\* separates that run from the text.
AtxHeadingsExtracted ==
    last.op = "setContent"
        => Extracted =
               {<<i, LeadingHashes(bodyLines[i]),
                  TrimSpace(BeforeClosing(bodyLines[i]))>> :
                   i \in {j \in 1..Len(bodyLines) :
                             /\ OutsideFence(j)
                             /\ LeadingHashes(bodyLines[j]) \in 1..6
                             /\ LeadRun(AfterHashes(bodyLines[j]), IsSpace) >= 1
                             /\ TrimSpace(BeforeClosing(bodyLines[j])) # <<>>}}

\* C34: a line outside a fence is extracted exactly when it begins with 1
\* to 6 hashes followed by a white-space character and at least one more
\* character; its level is the number of leading hashes, in 1..6, and a
\* line with 7 or more leading hashes is not extracted; its text is the
\* trimmed rest of the line, without the run of hashes at the end of the
\* line only when white space separates that run from a text before it.
AtxHeadingsExtractedClosingSetOff ==
    last.op = "setContent"
        => /\ Extracted =
                  {<<i, LeadingHashes(bodyLines[i]),
                     IF ClosingSetOff(bodyLines[i])
                     THEN TrimSpace(BeforeClosing(bodyLines[i]))
                     ELSE TrimSpace(AfterHashes(bodyLines[i]))>> :
                      i \in {j \in 1..Len(bodyLines) :
                                /\ OutsideFence(j)
                                /\ LeadingHashes(bodyLines[j]) \in 1..6
                                /\ Len(AfterHashes(bodyLines[j])) >= 2
                                /\ AfterHashes(bodyLines[j])[1] \in IsSpace}}
           /\ \A k \in 1..Len(hs) : hs[k].Level \in 1..6

\* the outline holds a heading whose closing hashes were removed and one
\* whose hashes follow the text directly and were kept, from a document
\* whose line of seven hashes gave no heading
ClosingHashesKeptAndRemoved ==
    /\ last.op = "setContent"
    /\ Len(hs) = 2
    /\ bodyLines = <<ClosedLine, SevenHashes, UnseparatedLine>>
    /\ hs[1].Text = <<"a">> /\ hs[1].Line = 0
    /\ hs[2].Text = <<"a", "#", "#">> /\ hs[2].Line = 2

\* the messages pagerModel.update handles in a turn of its own
UpdateTurns ==
    {"key", "o", "tab", "]", "[", "enter", "j", "k", "contentRendered",
     "windowSize"}
\* the sidebar is shown, visible and not focused, over headings and a
\* content that has lines
SidebarFollowsScroll ==
    /\ m.showOutline /\ m.outline.visible /\ ~m.outlineFocused
    /\ Len(hs) > 0
    /\ TotalLineCount(m.viewport) > 0

\* C35: at the end of every turn of update in which the sidebar is shown,
\* visible and not focused, current is the index updateCurrent derives
\* from the content viewport's scroll offset, the turn that toggles the
\* outline on and the turns that return early with a render command
\* included.
CurrentFollowsScrollAfterEveryTurn ==
    (last.op \in UpdateTurns /\ SidebarFollowsScroll)
        => m.outline.current = ScrollDerivedCurrent

\* C36: in every reachable state the pager's focus flag, which routes the
\* keys, equals the outline's focused flag, which picks the highlight of
\* the cursor line, also after the outline is toggled off while the
\* sidebar has the focus and then toggled on again.
FocusFlagsAgree == m.outlineFocused = m.outline.focused

\* C37: in every reachable state the keyboard focus on the sidebar implies
\* that the sidebar is shown and visible: whatever hides the sidebar
\* while it has the focus (the toggle, a resize under the minimum width)
\* takes the focus away as well.
FocusOnlyOnVisibleSidebar ==
    m.outlineFocused => (m.showOutline /\ m.outline.visible)

\* the lines and texts of a list of headings
LinesAndTexts(list) == [k \in 1..Len(list) |-> <<list[k].Line, list[k].Text>>]

\* C38: when a render result has been handled for a markdown file, the
\* headings are those of the body whose rendering the result is, and
\* every resolved rendered line is a line of the rendering of the body the
\* pager holds, also when the result was requested for an earlier body
\* and delivered after the body changed.
HeadingsOfTheRenderedBody ==
    (last.op = "contentRendered" /\ isMarkdownFile(m))
        => /\ \E body \in FileBodies :
                  /\ Join(m.viewport.lines) \in Renderings(body)
                  /\ LinesAndTexts(hs) = LinesAndTexts(parseHeadings(body))
           /\ \A i \in 0..(Len(hs) - 1) :
                  Resolved(i)
                      => /\ Join(m.viewport.lines)
                                \in Renderings(m.currentDocument.Body)
                         /\ hs[i + 1].RenderedLine < Len(m.viewport.lines)

\* C39: updateCurrent is monotone in its argument: on the headings held,
\* a raw line L1 <= L2 selects an index <= the one L2 selects; and a key
\* that scrolls the content further down while the sidebar is shown,
\* visible and not focused never leaves current at an earlier heading
\* than it was on.
ScrollingDownNeverSelectsEarlier ==
    [][/\ \A L1 \in -1..MaxDocLines, L2 \in -1..MaxDocLines :
              L1 <= L2 => updateCurrent(m.outline, L1).current
                              <= updateCurrent(m.outline, L2).current
       /\ (/\ last'.op = "key"
            /\ m.showOutline /\ m.outline.visible /\ ~m.outlineFocused
            /\ m'.viewport.YOffset > m.viewport.YOffset)
              => m'.outline.current >= m.outline.current
      ]_vars

====
